---- MODULE Spec2Model ----
(***************************************************************************)
(* Branching story engine (storyengine_pkg): the LangGraph tree build of   *)
(* InteractiveStoryDirector.generate_full_tree, the recursive subtree      *)
(* regeneration of main.py and the gauge fold of calculate_final_ending.   *)
(***************************************************************************)
EXTENDS Integers, Sequences, FiniteSets, TLC

VARIABLES
    phase,           \* position of generate_full_tree: "idle", "running", "done"
    context,         \* context["gauges"]: the selected gauge definitions
    max_depth,       \* the max_depth argument
    nodes,           \* state channel "nodes" (reducer operator.add)
    current_gauges,  \* state channel "current_gauges" (reducer merge_gauges)
    tasks,           \* the generate_node tasks of the running superstep
    accepted,        \* choices of the payloads accepted so far in this build
    cfe,             \* calculate_final_ending: arguments, loop position, gauges
    sub,             \* regenerate_subtree: arguments, pending calls, nodes made
    ev,              \* evaluate_condition / check_condition_reachability: call and result
    val,             \* validate_gauge_balance / find_dead_ends: arguments and report
    game,            \* simulate_full_game: arguments, episode position, results
    store,           \* a stored list of episodes, the last library call on it and its result
    flow             \* main_flow / generate_single_episode: provider outputs and the assembled story

vars == <<phase, context, max_depth, nodes, current_gauges, tasks, accepted, cfe, sub, ev, val, game,
          store, flow>>

treeVars == <<phase, context, max_depth, nodes, current_gauges, tasks, accepted>>

----------------------------------------------------------------------------
(* Bounds of the model *)

MaxDepthBound == 2      \* max_depth ranges over 1..MaxDepthBound
MaxChoices == 8         \* choices the provider hands out during one build
MaxEpisodes == 3        \* episode results handed to calculate_final_ending

(* Program constants *)

min_items == 2          \* StoryNodeSchema.choices min_items
max_items == 4          \* StoryNodeSchema.choices max_items
min_length == 50        \* StoryChoiceSchema.immediate_reaction min_length
DefaultGauge == 50      \* gauge value used when none is recorded
GaugeMin == 0           \* lower clamp of a gauge
GaugeMax == 100         \* upper clamp of a gauge

----------------------------------------------------------------------------
(* Python values *)

None == [none |-> TRUE]

EmptyDict == <<>>

\* dict[k] = v
DictSet(d, k, v) == [x \in (DOMAIN d) \cup {k} |-> IF x = k THEN v ELSE d[x]]

\* dict.get(k, default)
DictGet(d, k, default) == IF k \in DOMAIN d THEN d[k] ELSE default

Min2(a, b) == IF a < b THEN a ELSE b

Max2(a, b) == IF a > b THEN a ELSE b

\* max(0, min(100, v))
Clamp(v) == Max2(GaugeMin, Min2(GaugeMax, v))

----------------------------------------------------------------------------
(* Python strings: conditions are strings, read character by character *)

\* needle in s
StrIn(needle, s) ==
    \E i \in 1..(Len(s) - Len(needle) + 1) : SubSeq(s, i, i + Len(needle) - 1) = needle

\* s.find(needle) + 1: position of the leftmost occurrence, 0 when there is none
StrFind(s, needle) ==
    IF StrIn(needle, s)
    THEN CHOOSE i \in 1..(Len(s) - Len(needle) + 1) :
            /\ SubSeq(s, i, i + Len(needle) - 1) = needle
            /\ \A j \in 1..(i - 1) : SubSeq(s, j, j + Len(needle) - 1) # needle
    ELSE 0

\* s.split(sep)
RECURSIVE StrSplit(_, _)
StrSplit(s, sep) ==
    LET i == StrFind(s, sep)
    IN IF i = 0 THEN <<s>>
       ELSE <<SubSeq(s, 1, i - 1)>> \o StrSplit(SubSeq(s, i + Len(sep), Len(s)), sep)

\* s.strip()
RECURSIVE StrStrip(_)
StrStrip(s) ==
    IF Len(s) = 0 THEN s
    ELSE IF SubSeq(s, 1, 1) = " " THEN StrStrip(SubSeq(s, 2, Len(s)))
    ELSE IF SubSeq(s, Len(s), Len(s)) = " " THEN StrStrip(SubSeq(s, 1, Len(s) - 1))
    ELSE s

DigitValue == [c \in {"0", "1", "2", "3", "4", "5", "6", "7", "8", "9"} |->
                 CASE c = "0" -> 0 [] c = "1" -> 1 [] c = "2" -> 2 [] c = "3" -> 3
                   [] c = "4" -> 4 [] c = "5" -> 5 [] c = "6" -> 6 [] c = "7" -> 7
                   [] c = "8" -> 8 [] c = "9" -> 9]

\* s.isdigit()
StrIsDigit(s) ==
    /\ Len(s) > 0
    /\ \A i \in 1..Len(s) : SubSeq(s, i, i) \in DOMAIN DigitValue

\* value of a string of decimal digits
RECURSIVE DigitsValue(_)
DigitsValue(s) ==
    IF Len(s) = 0 THEN 0
    ELSE 10 * DigitsValue(SubSeq(s, 1, Len(s) - 1)) + DigitValue[SubSeq(s, Len(s), Len(s))]

\* int(s) succeeds: an optional sign and decimal digits
IntParses(s) ==
    \/ StrIsDigit(s)
    \/ /\ Len(s) > 1
       /\ SubSeq(s, 1, 1) \in {"+", "-"}
       /\ StrIsDigit(SubSeq(s, 2, Len(s)))

\* int(s)
IntOf(s) ==
    IF StrIsDigit(s) THEN DigitsValue(s)
    ELSE IF SubSeq(s, 1, 1) = "-" THEN 0 - DigitsValue(SubSeq(s, 2, Len(s)))
    ELSE DigitsValue(SubSeq(s, 2, Len(s)))

----------------------------------------------------------------------------
(* utils.evaluate_condition *)

\* a list that tries the one-character comparators first
operatorsShortestFirst == <<">", "<", ">=", "<=", "==">>

\* operators = [">=", "<=", ">", "<", "=="]
operators == <<">=", "<=", ">", "<", "==">>

\* the if/elif chain that applies op
ApplyOperator(op, left_val, right_val) ==
    CASE op = ">=" -> left_val >= right_val
      [] op = "<=" -> left_val <= right_val
      [] op = ">" -> left_val > right_val
      [] op = "<" -> left_val < right_val
      [] op = "==" -> left_val = right_val

\* for op in operators: the first op that occurs in the condition and splits
\* it in two decides; False when no op does
RECURSIVE EvaluateSingle(_, _, _)
EvaluateSingle(condition, tag_scores, ops) ==
    IF ops = <<>> THEN FALSE
    ELSE LET op == Head(ops)
             parts == StrSplit(condition, op)
         IN IF StrIn(op, condition) /\ Len(parts) = 2
            THEN LET left == StrStrip(parts[1])
                     right == StrStrip(parts[2])
                     left_val == DictGet(tag_scores, left, 0)
                     right_val == IF StrIsDigit(right) THEN IntOf(right)
                                  ELSE DictGet(tag_scores, right, 0)
                 IN ApplyOperator(op, left_val, right_val)
            ELSE EvaluateSingle(condition, tag_scores, Tail(ops))

\* a split that looks for " OR " before " AND "
RECURSIVE evaluate_condition_or_first(_, _)
evaluate_condition_or_first(condition, tag_scores) ==
    IF condition = "default" THEN TRUE
    ELSE IF StrIn(" OR ", condition)
    THEN LET parts == StrSplit(condition, " OR ")
         IN \E i \in 1..Len(parts) : evaluate_condition_or_first(StrStrip(parts[i]), tag_scores)
    ELSE IF StrIn(" AND ", condition)
    THEN LET parts == StrSplit(condition, " AND ")
         IN \A i \in 1..Len(parts) : evaluate_condition_or_first(StrStrip(parts[i]), tag_scores)
    ELSE EvaluateSingle(condition, tag_scores, operators)

RECURSIVE evaluate_condition(_, _)
evaluate_condition(condition, tag_scores) ==
    IF condition = "default" THEN TRUE
    ELSE IF StrIn(" AND ", condition)
    THEN LET parts == StrSplit(condition, " AND ")
         IN \A i \in 1..Len(parts) : evaluate_condition(StrStrip(parts[i]), tag_scores)
    ELSE IF StrIn(" OR ", condition)
    THEN LET parts == StrSplit(condition, " OR ")
         IN \E i \in 1..Len(parts) : evaluate_condition(StrStrip(parts[i]), tag_scores)
    ELSE EvaluateSingle(condition, tag_scores, operators)

\* evaluate_gauge_condition(condition, gauges)
evaluate_gauge_condition(condition, gauges) == evaluate_condition(condition, gauges)

----------------------------------------------------------------------------
(* The content provider: structured_llm.ainvoke either raises or returns a  *)
(* payload; a payload has some number of choices, each with a reaction of   *)
(* some length, and may carry keys the schema does not know.                *)

ProviderResponses ==
    {[kind |-> "exception"]} \cup
    {[kind |-> "payload", n_choices |-> n, short_reaction |-> FALSE, extra |-> e] :
        n \in (min_items - 1)..(max_items + 1), e \in BOOLEAN} \cup
    {[kind |-> "payload", n_choices |-> min_items, short_reaction |-> TRUE, extra |-> FALSE]}

RawChoice(resp, i) ==
    LET base == [text |-> i,
                 immediate_reaction |-> IF resp.short_reaction /\ i = 1 THEN min_length - 1 ELSE min_length]
    IN IF resp.extra THEN base @@ [gauge_changes |-> [hope |-> 20]] ELSE base

RawChoices(resp) == [i \in 1..resp.n_choices |-> RawChoice(resp, i)]

\* a schema without the upper limit on the number of choices
SchemaValidNoMaxItems(resp) ==
    /\ resp.kind = "payload"
    /\ resp.n_choices >= min_items
    /\ \A i \in 1..resp.n_choices : RawChoices(resp)[i].immediate_reaction >= min_length

\* pydantic validation of StoryNodeSchema / StoryChoiceSchema
SchemaValid(resp) ==
    /\ resp.kind = "payload"
    /\ resp.n_choices >= min_items
    /\ resp.n_choices <= max_items
    /\ \A i \in 1..resp.n_choices : RawChoices(resp)[i].immediate_reaction >= min_length

\* a dump that keeps the keys the schema does not declare
ModelDumpChoiceKeepsExtra(c) == c

\* structured_response.model_dump(): only the declared fields survive
ModelDumpChoice(c) == [text |-> c.text, immediate_reaction |-> c.immediate_reaction]

ModelDump(resp) == [choices |-> [i \in 1..resp.n_choices |-> ModelDumpChoice(RawChoices(resp)[i])]]

----------------------------------------------------------------------------
(* generate_full_tree: baseline gauges *)

GaugeId(g) == IF "id" \in DOMAIN g THEN g.id
              ELSE IF "name" \in DOMAIN g THEN g.name ELSE "unknown"

RECURSIVE InitialGauges(_)
InitialGauges(gauges) ==
    IF gauges = <<>> THEN EmptyDict
    ELSE LET n == Len(gauges)
             g == gauges[n]
         IN DictSet(InitialGauges(SubSeq(gauges, 1, n - 1)), GaugeId(g),
                    DictGet(g, "initial_value", DefaultGauge))

RECURSIVE FillDefault(_, _)
FillDefault(cur, gauges) ==
    IF gauges = <<>> THEN cur
    ELSE FillDefault(DictSet(cur, GaugeId(Head(gauges)), DefaultGauge), Tail(gauges))

RECURSIVE ApplyChanges(_, _, _)
ApplyChanges(cur, changes, keys) ==
    IF keys = {} THEN cur
    ELSE LET k == CHOOSE x \in keys : TRUE
             v == IF k \in DOMAIN cur THEN Clamp(cur[k] + changes[k])
                  ELSE Clamp(DefaultGauge + changes[k])
         IN ApplyChanges(DictSet(cur, k, v), changes, keys \ {k})

\* _calculate_current_gauges(state, choice_taken)
CalculateCurrentGauges(state_gauges, ctx_gauges, choice_taken) ==
    LET current == IF DOMAIN state_gauges = {} THEN FillDefault(EmptyDict, ctx_gauges)
                   ELSE state_gauges
    IN IF choice_taken # None /\ "gauge_changes" \in DOMAIN choice_taken
       THEN ApplyChanges(current, choice_taken.gauge_changes, DOMAIN choice_taken.gauge_changes)
       ELSE current

\* merge_gauges(current, new)
merge_gauges(current, new) ==
    IF DOMAIN new = {} THEN current
    ELSE [k \in (DOMAIN current) \cup (DOMAIN new) |-> IF k \in DOMAIN new THEN new[k] ELSE current[k]]

----------------------------------------------------------------------------
(* _node_generator *)

\* node type from depth and max_depth
NodeType(depth, md) ==
    IF depth = md THEN "ending"
    ELSE IF depth = 0 THEN "first_choice"
    ELSE IF depth = md - 1 THEN "climax"
    ELSE "development"

\* The state handed to generate_node when no Send carries a task (root).
RootInput(md, cg) == [has_task |-> FALSE, max_depth |-> md, current_gauges |-> cg]

TaskDepth(st) == IF st.has_task THEN st.task.depth ELSE 0

TaskParent(st) == IF st.has_task THEN st.task.parent_node ELSE None

TaskChoice(st) == IF st.has_task THEN st.task.choice_taken ELSE None

\* a node that forgets its parent
ParentIdLost(parent) == None

ParentId(parent) == IF parent # None THEN parent.id ELSE None

\* str(uuid.uuid4())[:8]: a fresh token, here the position of the node in the
\* tree (root <<0>>, then the parent's token followed by the choice index).
NewNodeId(st) ==
    IF st.has_task THEN [uuid |-> Append(st.task.parent_node.id.uuid, st.task.choice_index)]
    ELSE [uuid |-> <<0>>]

\* a handler that only catches validation errors
ExceptCaughtValidationOnly(resp) == resp.kind # "exception"

\* except Exception (line 874): a provider error and a validation error are
\* both Exceptions, so every failure of the call is caught.
ExceptCaught(resp) == TRUE

NodeGenerator(st, ctx_gauges, resp) ==
    LET depth == TaskDepth(st)
        parent == TaskParent(st)
        choice_taken == TaskChoice(st)
        node_type == NodeType(depth, st.max_depth)
        cg == CalculateCurrentGauges(st.current_gauges, ctx_gauges, choice_taken)
        new_node == [id |-> NewNodeId(st), depth |-> depth,
                     choices |-> ModelDump(resp).choices,
                     parent_id |-> ParentId(parent), node_type |-> node_type]
        fallback_node == [id |-> NewNodeId(st), depth |-> depth, choices |-> <<>>,
                          parent_id |-> ParentId(parent), node_type |-> "error"]
    IN IF SchemaValid(resp)
       THEN [raised |-> FALSE, nodes |-> <<new_node>>, current_gauges |-> cg]
       ELSE IF ExceptCaught(resp)
       THEN [raised |-> FALSE, nodes |-> <<fallback_node>>, current_gauges |-> cg]
       ELSE [raised |-> TRUE, nodes |-> <<>>, current_gauges |-> EmptyDict]

----------------------------------------------------------------------------
(* _plan_next_step *)

RECURSIVE MaxDepthOf(_)
MaxDepthOf(ns) == IF Len(ns) = 1 THEN ns[1].depth
                  ELSE Max2(Head(ns).depth, MaxDepthOf(Tail(ns)))

SelectDepth(ns, d) == SelectSeq(ns, LAMBDA n : n.depth = d)

LatestNodes(ns) == IF Len(ns) = 1 THEN ns ELSE SelectDepth(ns, MaxDepthOf(ns))

ChoiceTasks(node, st) ==
    [i \in 1..Len(node.choices) |->
        [has_task |-> TRUE,
         task |-> [depth |-> node.depth + 1, parent_node |-> node,
                   choice_taken |-> node.choices[i], choice_index |-> i - 1],
         max_depth |-> st.max_depth,
         current_gauges |-> st.current_gauges]]

RECURSIVE PlanTasks(_, _)
PlanTasks(latest, st) ==
    IF latest = <<>> THEN <<>>
    ELSE (IF Head(latest).choices = <<>> THEN <<>> ELSE ChoiceTasks(Head(latest), st))
         \o PlanTasks(Tail(latest), st)

\* The Sends of the next superstep; <<>> stands for END.
PlanNextStep(st) ==
    IF st.nodes = <<>> THEN <<RootInput(st.max_depth, st.current_gauges)>>
    ELSE LET latest_nodes == LatestNodes(st.nodes)
         IN IF latest_nodes # <<>> /\ latest_nodes[1].depth > st.max_depth THEN <<>>
            ELSE PlanTasks(latest_nodes, st)

----------------------------------------------------------------------------
(* generate_full_tree: the compiled graph START -> generate_node, with the  *)
(* conditional edge _plan_next_step.  A superstep runs its generate_node    *)
(* tasks concurrently; the conditional edge of a task reads the channels    *)
(* with that task's own writes applied; the writes of all tasks are applied *)
(* and the Sends become the next superstep once every task has finished.    *)

Contexts ==
    { <<[id |-> "hope", initial_value |-> 65], [id |-> "trust"]>>,
      <<[id |-> "hope", initial_value |-> 150], [id |-> "trust", initial_value |-> 0]>> }

Slot(input) == [input |-> input, status |-> "pending", valid |-> FALSE,
                writes |-> None, sends |-> <<>>]

Pending(ts) == SelectSeq(ts, LAMBDA t : t.status = "pending")

\* a scheduler that moves on as soon as one task has finished
RoundResolvedEager(ts) == \E i \in 1..Len(ts) : ts[i].status = "done"

\* a barrier that never releases a superstep of a single task
RoundResolvedNeverSingle(ts) == Len(ts) > 1 /\ \A i \in 1..Len(ts) : ts[i].status = "done"

\* the superstep ends when every task of it has finished
RoundResolved(ts) == \A i \in 1..Len(ts) : ts[i].status = "done"

RECURSIVE WrittenNodesLastFirst(_)
\* writes applied from the last task of the superstep to the first
WrittenNodesLastFirst(ts) ==
    IF ts = <<>> THEN <<>>
    ELSE WrittenNodesLastFirst(Tail(ts))
         \o (IF Head(ts).status = "done" THEN Head(ts).writes.nodes ELSE <<>>)

RECURSIVE WrittenNodes(_)
WrittenNodes(ts) ==
    IF ts = <<>> THEN <<>>
    ELSE (IF Head(ts).status = "done" THEN Head(ts).writes.nodes ELSE <<>>)
         \o WrittenNodes(Tail(ts))

RECURSIVE WrittenGauges(_, _)
WrittenGauges(cur, ts) ==
    IF ts = <<>> THEN cur
    ELSE WrittenGauges(IF Head(ts).status = "done"
                       THEN merge_gauges(cur, Head(ts).writes.current_gauges)
                       ELSE cur, Tail(ts))

RECURSIVE SentTasks(_)
SentTasks(ts) ==
    IF ts = <<>> THEN <<>>
    ELSE (IF Head(ts).status = "done"
          THEN [i \in 1..Len(Head(ts).sends) |-> Slot(Head(ts).sends[i])]
          ELSE <<>>)
         \o SentTasks(Tail(ts))

SubIdle == [pc |-> "idle", current_depth |-> 0, max_depth |-> 1, parent_choices |-> <<>>,
            stack |-> <<>>, nodes |-> <<>>, used |-> 0]

CfeIdle == [pc |-> "idle", initial_gauges |-> None, episode_results |-> <<>>,
            final_endings |-> <<>>, arg_gauges |-> None, arg_results |-> <<>>,
            aliased |-> FALSE, i |-> 0, gauges |-> EmptyDict, ending |-> None]

ValIdle == [pc |-> "idle", episodes |-> <<>>, final_endings |-> <<>>, initial_value |-> 50,
            report |-> None, dead_ends |-> None]

GameIdle == [pc |-> "idle", episodes |-> <<>>, context |-> [gauges |-> <<>>, final_endings |-> <<>>],
             episode_choices |-> <<>>, arg_episodes |-> <<>>, i |-> 0, sims |-> <<>>,
             episode_results |-> <<>>, final_gauges |-> None, final_ending |-> None,
             replay |-> None]

EvIdle == [pc |-> "idle", terms |-> <<>>, conns |-> <<>>, condition |-> "default",
           scores |-> EmptyDict, ranges |-> EmptyDict, result |-> None, reachable |-> None]

StoreIdle == [pc |-> "idle", episodes |-> <<>>, op |-> [name |-> "none"], result |-> None, edits |-> 0]

FlowIdle == [pc |-> "idle", final_endings |-> <<>>, episodes |-> <<>>, data |-> None,
             episode |-> None, error |-> "none"]

TreeInit ==
    /\ phase = "idle"
    /\ store = StoreIdle
    /\ flow = FlowIdle
    /\ context \in Contexts
    /\ max_depth \in 1..MaxDepthBound
    /\ nodes = <<>>
    /\ current_gauges = EmptyDict
    /\ tasks = <<>>
    /\ accepted = 0
    /\ cfe = CfeIdle
    /\ sub = SubIdle
    /\ ev = EvIdle
    /\ val = ValIdle
    /\ game = GameIdle

\* generate_full_tree up to app.ainvoke(initial_state)
StartBuild ==
    /\ phase = "idle"
    /\ phase' = "running"
    /\ current_gauges' = InitialGauges(context)
    /\ tasks' = <<Slot(RootInput(max_depth, InitialGauges(context)))>>
    /\ UNCHANGED <<context, max_depth, nodes, accepted, cfe, sub, ev, val, game, store, flow>>

\* one generate_node task: the provider call, the node, the conditional edge;
\* an exception that leaves the task is re-raised by generate_full_tree
GenerateNode(i, resp) ==
    /\ phase = "running"
    /\ tasks[i].status = "pending"
    /\ LET out == NodeGenerator(tasks[i].input, context, resp)
           fresh == [nodes |-> nodes \o out.nodes,
                     max_depth |-> max_depth,
                     current_gauges |-> merge_gauges(current_gauges, out.current_gauges)]
       IN IF out.raised
          THEN /\ phase' = "raised"
               /\ UNCHANGED <<tasks, accepted>>
          ELSE /\ accepted + Len(out.nodes[1].choices) <= MaxChoices
               /\ tasks' = [tasks EXCEPT ![i] = [input |-> @.input, status |-> "done",
                                                 valid |-> SchemaValid(resp),
                                                 writes |-> out,
                                                 sends |-> PlanNextStep(fresh)]]
               /\ accepted' = accepted + Len(out.nodes[1].choices)
               /\ phase' = phase
    /\ UNCHANGED <<context, max_depth, nodes, current_gauges, cfe, sub, ev, val, game, store, flow>>

\* end of a superstep: reducers applied, Sends scheduled, or the graph ends
\* and generate_full_tree returns final_state["nodes"]
EndSuperstep ==
    /\ phase = "running"
    /\ tasks # <<>>
    /\ RoundResolved(tasks)
    /\ nodes' = nodes \o WrittenNodes(tasks)
    /\ current_gauges' = WrittenGauges(current_gauges, tasks)
    /\ tasks' = Pending(tasks) \o SentTasks(tasks)
    /\ phase' = IF tasks' = <<>> THEN "done" ELSE "running"
    /\ UNCHANGED <<context, max_depth, accepted, cfe, sub, ev, val, game, store, flow>>

TreeNext ==
    \/ StartBuild
    \/ \E i \in 1..Len(tasks) : \E resp \in ProviderResponses : GenerateNode(i, resp)
    \/ EndSuperstep

Spec == TreeInit /\ [][TreeNext]_vars

\* the provider call returns or fails, and the event loop runs what is ready
FairSpec == Spec /\ WF_vars(TreeNext)

----------------------------------------------------------------------------
(* utils.calculate_tag_scores and utils.determine_episode_ending *)

\* for tag in choice.get("tags", []): scores[tag] = scores.get(tag, 0) + 1
RECURSIVE AddTags(_, _)
AddTags(scores, tags) ==
    IF tags = <<>> THEN scores
    ELSE AddTags(DictSet(scores, Head(tags), DictGet(scores, Head(tags), 0) + 1), Tail(tags))

RECURSIVE TagScoresFrom(_, _)
TagScoresFrom(scores, choices_made) ==
    IF choices_made = <<>> THEN scores
    ELSE TagScoresFrom(AddTags(scores, DictGet(Head(choices_made), "tags", <<>>)),
                       Tail(choices_made))

calculate_tag_scores(choices_made) == TagScoresFrom(EmptyDict, choices_made)

\* a first loop that does not leave the "default" endings out
RECURSIVE FirstMetEndingAny(_, _)
FirstMetEndingAny(endings, tag_scores) ==
    IF endings = <<>> THEN None
    ELSE IF evaluate_condition(DictGet(Head(endings), "condition", "default"), tag_scores)
    THEN Head(endings)
    ELSE FirstMetEndingAny(Tail(endings), tag_scores)

\* first loop: condition = ending.get("condition", "default"); the first
\* ending whose condition is not "default" and evaluates true
RECURSIVE FirstMetEnding(_, _)
FirstMetEnding(endings, tag_scores) ==
    IF endings = <<>> THEN None
    ELSE LET condition == DictGet(Head(endings), "condition", "default")
         IN IF condition # "default" /\ evaluate_condition(condition, tag_scores)
            THEN Head(endings)
            ELSE FirstMetEnding(Tail(endings), tag_scores)

\* second loop: the first ending with ending.get("condition") == "default"
RECURSIVE FirstDefaultEnding(_)
FirstDefaultEnding(endings) ==
    IF endings = <<>> THEN None
    ELSE IF "condition" \in DOMAIN Head(endings) /\ Head(endings).condition = "default"
    THEN Head(endings)
    ELSE FirstDefaultEnding(Tail(endings))

determine_episode_ending(choices_made, endings) ==
    LET tag_scores == calculate_tag_scores(choices_made)
        met == FirstMetEnding(endings, tag_scores)
        dflt == FirstDefaultEnding(endings)
    IN IF met # None THEN met
       ELSE IF dflt # None THEN dflt
       ELSE IF endings # <<>> THEN endings[1] ELSE None

----------------------------------------------------------------------------
(* calculate_final_ending(episode_results, final_endings, initial_gauges):  *)
(* the gauge fold over the reached episode endings.                         *)

ChangeMaps == {[hope |-> 60], [hope |-> 0 - 150], [hope |-> 10, trust |-> 0 - 20], EmptyDict}

ReachedEndings == {[gauge_changes |-> m] : m \in ChangeMaps} \cup {[title |-> "untitled"]}

\* an episode without endings reaches None
EpisodeOutcomes == ReachedEndings \cup {None}

FinalEndingLists ==
    { <<[title |-> "good", condition |-> "hope >= 70"],
        [title |-> "lonely", condition |-> "trust <= 30 AND hope < 70"],
        [title |-> "neutral", condition |-> "default"]>>,
      <<[title |-> "neutral", condition |-> "default"],
        [title |-> "good", condition |-> "hope >= 70"]>>,
      <<[title |-> "bright", condition |-> "hope > trust"], [title |-> "plain"]>> }

EpisodeResults == {[ending |-> e] : e \in EpisodeOutcomes}

InitialGaugeMaps == {None, [hope |-> 50], [hope |-> 50, trust |-> 100], [hope |-> 150]}

RECURSIVE SeqsUpTo(_, _)
SeqsUpTo(S, n) ==
    IF n = 0 THEN {<<>>}
    ELSE LET shorter == SeqsUpTo(S, n - 1)
         IN shorter \cup {Append(q, x) : q \in shorter, x \in S}

\* the loop body without the clamp
RECURSIVE ApplyEndingUnclamped(_, _, _)
ApplyEndingUnclamped(gauges, changes, keys) ==
    IF keys = {} THEN gauges
    ELSE LET k == CHOOSE x \in keys : TRUE
             g == IF k \in DOMAIN gauges THEN gauges ELSE DictSet(gauges, k, DefaultGauge)
         IN ApplyEndingUnclamped(DictSet(g, k, g[k] + changes[k]), changes, keys \ {k})

\* for gauge_id, change in changes.items(): default 50, add, clamp
RECURSIVE ApplyEnding(_, _, _)
ApplyEnding(gauges, changes, keys) ==
    IF keys = {} THEN gauges
    ELSE LET k == CHOOSE x \in keys : TRUE
             g == IF k \in DOMAIN gauges THEN gauges ELSE DictSet(gauges, k, DefaultGauge)
         IN ApplyEnding(DictSet(g, k, Max2(0, Min2(100, g[k] + changes[k]))), changes, keys \ {k})

\* result.get("ending", {}).get("gauge_changes", {})
ResultChanges(result) ==
    LET ending == DictGet(result, "ending", EmptyDict)
    IN DictGet(ending, "gauge_changes", EmptyDict)

\* gauges = initial_gauges.copy(): a new dict, not the caller's object
GaugesAliasArgumentNoCopy(initial_gauges) == initial_gauges # None

\* whether the local gauges is the dict object the caller passed:
\* gauges = {} and gauges = initial_gauges.copy() both make a new dict
GaugesAliasArgument(initial_gauges) == FALSE

\* result.get("ending", {}) is None: ending.get raises AttributeError
EndingIsNone(result) == "ending" \in DOMAIN result /\ result.ending = None

\* the loop over episode_results, from the gauges given
RECURSIVE FoldResults(_, _)
FoldResults(gauges, results) ==
    IF results = <<>> THEN gauges
    ELSE LET changes == ResultChanges(Head(results))
         IN FoldResults(ApplyEnding(gauges, changes, DOMAIN changes), Tail(results))

\* first loop over final_endings: not "default" and evaluate_gauge_condition
RECURSIVE FirstMetFinalEnding(_, _)
FirstMetFinalEnding(final_endings, gauges) ==
    IF final_endings = <<>> THEN None
    ELSE LET condition == DictGet(Head(final_endings), "condition", "default")
         IN IF condition # "default" /\ evaluate_gauge_condition(condition, gauges)
            THEN Head(final_endings)
            ELSE FirstMetFinalEnding(Tail(final_endings), gauges)

\* second loop over final_endings: ending.get("condition") == "default"
RECURSIVE FirstDefaultFinalEnding(_)
FirstDefaultFinalEnding(final_endings) ==
    IF final_endings = <<>> THEN None
    ELSE IF "condition" \in DOMAIN Head(final_endings) /\ Head(final_endings).condition = "default"
    THEN Head(final_endings)
    ELSE FirstDefaultFinalEnding(Tail(final_endings))

\* the three returns of calculate_final_ending
FinalEndingOf(final_endings, gauges) ==
    LET met == FirstMetFinalEnding(final_endings, gauges)
        dflt == FirstDefaultFinalEnding(final_endings)
    IN IF met # None THEN met
       ELSE IF dflt # None THEN dflt
       ELSE IF final_endings # <<>> THEN final_endings[1] ELSE None

\* calculate_final_ending as one call
calculate_final_ending(episode_results, final_endings, initial_gauges) ==
    IF \E i \in 1..Len(episode_results) : EndingIsNone(episode_results[i])
    THEN [raised |-> TRUE, gauges |-> EmptyDict, ending |-> None]
    ELSE LET gauges == FoldResults(IF initial_gauges = None THEN EmptyDict ELSE initial_gauges,
                                   episode_results)
         IN [raised |-> FALSE, gauges |-> gauges, ending |-> FinalEndingOf(final_endings, gauges)]

GaugeInit ==
    /\ phase = "idle"
    /\ store = StoreIdle
    /\ flow = FlowIdle
    /\ context = <<>>
    /\ max_depth = 1
    /\ nodes = <<>>
    /\ current_gauges = EmptyDict
    /\ tasks = <<>>
    /\ accepted = 0
    /\ sub = SubIdle
    /\ ev = EvIdle
    /\ val = ValIdle
    /\ game = GameIdle
    /\ \E ig \in InitialGaugeMaps : \E rs \in SeqsUpTo(EpisodeResults, MaxEpisodes) :
       \E fe \in FinalEndingLists :
          cfe = [pc |-> "idle", initial_gauges |-> ig, episode_results |-> rs,
                 final_endings |-> fe, arg_gauges |-> ig, arg_results |-> rs,
                 aliased |-> FALSE, i |-> 0, gauges |-> EmptyDict, ending |-> None]

\* gauges = {} or initial_gauges.copy()
CfeCall ==
    /\ cfe.pc = "idle"
    /\ cfe' = [cfe EXCEPT !.pc = "loop",
                          !.gauges = IF cfe.initial_gauges = None THEN EmptyDict
                                     ELSE cfe.initial_gauges,
                          !.aliased = GaugesAliasArgument(cfe.initial_gauges)]
    /\ UNCHANGED <<treeVars, sub, ev, val, game, store, flow>>

\* one iteration of: for result in episode_results
CfeLoop ==
    /\ cfe.pc = "loop"
    /\ cfe.i < Len(cfe.episode_results)
    /\ IF EndingIsNone(cfe.episode_results[cfe.i + 1])
       THEN cfe' = [cfe EXCEPT !.pc = "raised"]
       ELSE LET changes == ResultChanges(cfe.episode_results[cfe.i + 1])
                gauges == ApplyEnding(cfe.gauges, changes, DOMAIN changes)
            IN cfe' = [cfe EXCEPT !.i = cfe.i + 1,
                                  !.gauges = gauges,
                                  !.arg_gauges = IF cfe.aliased THEN gauges ELSE @]
    /\ UNCHANGED <<treeVars, sub, ev, val, game, store, flow>>

\* the ending loops and return {"gauges": gauges, "ending": ...}
CfeReturn ==
    /\ cfe.pc = "loop"
    /\ cfe.i = Len(cfe.episode_results)
    /\ cfe' = [cfe EXCEPT !.pc = "done",
                          !.ending = FinalEndingOf(cfe.final_endings, cfe.gauges)]
    /\ UNCHANGED <<treeVars, sub, ev, val, game, store, flow>>

GaugeNext == CfeCall \/ CfeLoop \/ CfeReturn

GaugeSpec == GaugeInit /\ [][GaugeNext]_vars

----------------------------------------------------------------------------
(* main.regenerate_subtree: for every choice of the edited parent node,     *)
(* _generate_child_subtree builds the subtree below it, one awaited call    *)
(* after the other (depth first).                                           *)

\* llm.ainvoke + _parse_json: an exception, or a payload whose "choices" is
\* whatever list the provider wrote (no schema is applied here)
SubResponses ==
    {[kind |-> "exception"]} \cup
    {[kind |-> "payload", n_choices |-> n] : n \in 0..(max_items + 1)}

\* _generate_single_node: parsed.get("choices", []) or [] after an exception
SingleNodeChoices(resp) ==
    IF resp.kind = "payload" THEN [i \in 1..resp.n_choices |-> [text |-> i]] ELSE <<>>

\* _generate_single_node: the text of the returned node, the provider's text
\* or the bracketed error message written after an exception
SingleNodeText(resp) ==
    IF resp.kind = "payload" THEN "story" ELSE "[error: the story could not be generated]"

\* node type in _generate_child_subtree
SubNodeType(current_depth, md) ==
    IF current_depth = md THEN "ending"
    ELSE IF current_depth = md - 1 THEN "climax"
    ELSE "development"

\* the calls _generate_child_subtree(current_depth = d) made for the choices cs
\* of the node with token path
ChildCalls(cs, d, path) == [i \in 1..Len(cs) |-> [depth |-> d, path |-> Append(path, i - 1)]]

\* the recursion guard: current_depth < max_depth and node_data.get("choices")
Recurses(current_depth, md, choices) == current_depth < md /\ choices # <<>>

SubInit ==
    /\ phase = "idle"
    /\ store = StoreIdle
    /\ flow = FlowIdle
    /\ context = <<>>
    /\ max_depth = 1
    /\ nodes = <<>>
    /\ current_gauges = EmptyDict
    /\ tasks = <<>>
    /\ accepted = 0
    /\ cfe = CfeIdle
    /\ ev = EvIdle
    /\ val = ValIdle
    /\ game = GameIdle
    /\ \E md \in 1..MaxDepthBound : \E cd \in 0..MaxDepthBound : \E n \in 0..2 :
          sub = [pc |-> "idle", current_depth |-> cd, max_depth |-> md,
                 parent_choices |-> [i \in 1..n |-> [text |-> i]],
                 stack |-> <<>>, nodes |-> <<>>, used |-> 0]

\* regenerate_subtree: the loop over parent_node["choices"]
SubCall ==
    /\ sub.pc = "idle"
    /\ sub' = [sub EXCEPT !.pc = "running",
                          !.stack = ChildCalls(sub.parent_choices, sub.current_depth + 1, <<0>>)]
    /\ UNCHANGED <<treeVars, cfe, ev, val, game, store, flow>>

\* one call of _generate_child_subtree up to its recursive calls
SubGenerate(resp) ==
    /\ sub.pc = "running"
    /\ sub.stack # <<>>
    /\ LET call == Head(sub.stack)
           choices == SingleNodeChoices(resp)
           child_node == [id |-> [uuid |-> call.path], depth |-> call.depth,
                          text |-> SingleNodeText(resp),
                          choices |-> choices,
                          node_type |-> SubNodeType(call.depth, sub.max_depth),
                          parent_id |-> [uuid |-> SubSeq(call.path, 1, Len(call.path) - 1)]]
           deeper == IF Recurses(call.depth, sub.max_depth, choices)
                     THEN ChildCalls(choices, call.depth + 1, call.path) ELSE <<>>
       IN /\ sub.used + Len(choices) <= MaxChoices
          /\ sub' = [sub EXCEPT !.stack = deeper \o Tail(sub.stack),
                                !.nodes = Append(sub.nodes, child_node),
                                !.used = sub.used + Len(choices)]
    /\ UNCHANGED <<treeVars, cfe, ev, val, game, store, flow>>

\* regenerate_subtree returns regeneratedNodes
SubReturn ==
    /\ sub.pc = "running"
    /\ sub.stack = <<>>
    /\ sub' = [sub EXCEPT !.pc = "done"]
    /\ UNCHANGED <<treeVars, cfe, ev, val, game, store, flow>>

SubNext == SubCall \/ (\E resp \in SubResponses : SubGenerate(resp)) \/ SubReturn

SubSpec == SubInit /\ [][SubNext]_vars

----------------------------------------------------------------------------
(* validation.check_condition_reachability: True, False, or the ValueError  *)
(* of int() on a threshold that is not a number.                            *)

\* operators = [">=", "<=", ">", "<", "=="] (validation.py)
reach_operators == <<">=", "<=", ">", "<", "==">>

PyBool(b) == IF b THEN "True" ELSE "False"

\* the if/elif chain on op with range_min, range_max and threshold
ReachOperator(op, range_min, range_max, threshold) ==
    CASE op = ">=" -> range_max >= threshold
      [] op = "<=" -> range_min <= threshold
      [] op = ">" -> range_max > threshold
      [] op = "<" -> range_min < threshold
      [] op = "==" -> range_min <= threshold /\ threshold <= range_max

RECURSIVE ReachSingle(_, _, _)
ReachSingle(condition, gauge_ranges, ops) ==
    IF ops = <<>> THEN "False"
    ELSE LET op == Head(ops)
             parts == StrSplit(condition, op)
         IN IF StrIn(op, condition) /\ Len(parts) = 2
            THEN LET gauge_id == StrStrip(parts[1])
                     right == StrStrip(parts[2])
                 IN IF ~IntParses(right) THEN "ValueError"
                    ELSE IF gauge_id \notin DOMAIN gauge_ranges THEN "False"
                    ELSE PyBool(ReachOperator(op, gauge_ranges[gauge_id].min,
                                              gauge_ranges[gauge_id].max, IntOf(right)))
            ELSE ReachSingle(condition, gauge_ranges, Tail(ops))

RECURSIVE check_condition_reachability(_, _)
RECURSIVE ReachAll(_, _)
RECURSIVE ReachAny(_, _)

\* all(... for p in parts): stops at the first False, an exception leaves it
ReachAll(parts, gauge_ranges) ==
    IF parts = <<>> THEN "True"
    ELSE LET r == check_condition_reachability(StrStrip(Head(parts)), gauge_ranges)
         IN IF r = "True" THEN ReachAll(Tail(parts), gauge_ranges) ELSE r

\* any(... for p in parts): stops at the first True, an exception leaves it
ReachAny(parts, gauge_ranges) ==
    IF parts = <<>> THEN "False"
    ELSE LET r == check_condition_reachability(StrStrip(Head(parts)), gauge_ranges)
         IN IF r = "False" THEN ReachAny(Tail(parts), gauge_ranges) ELSE r

check_condition_reachability(condition, gauge_ranges) ==
    IF condition = "default" THEN "True"
    ELSE IF StrIn(" AND ", condition)
    THEN ReachAll(StrSplit(condition, " AND "), gauge_ranges)
    ELSE IF StrIn(" OR ", condition)
    THEN ReachAny(StrSplit(condition, " OR "), gauge_ranges)
    ELSE ReachSingle(condition, gauge_ranges, reach_operators)

----------------------------------------------------------------------------
(* Calls of evaluate_condition and check_condition_reachability on the      *)
(* conditions of the expression grammar: "default", a term, or terms joined *)
(* by AND / OR.  The terms and connectives a condition was written from are *)
(* kept next to its text.                                                   *)

MaxTerms == 3           \* terms of a condition

LiteralValue == ("0" :> 0) @@ ("2" :> 2) @@ ("10" :> 10)

Terms ==
    {[left |-> l, op |-> o, right |-> r, tight |-> t] :
        l \in {"x", "zz"}, o \in {">=", "<=", "==", ">", "<"},
        r \in {"y", "zz"} \cup DOMAIN LiteralValue, t \in BOOLEAN}

ChainTerms ==
    {[left |-> "x", op |-> ">=", right |-> "2", tight |-> FALSE],
     [left |-> "y", op |-> "<", right |-> "2", tight |-> FALSE],
     [left |-> "x", op |-> "==", right |-> "y", tight |-> TRUE],
     [left |-> "zz", op |-> ">", right |-> "0", tight |-> FALSE]}

TermText(t) ==
    IF t.tight THEN t.left \o t.op \o t.right
    ELSE t.left \o " " \o t.op \o " " \o t.right

RECURSIVE ConditionText(_, _)
ConditionText(terms, conns) ==
    IF terms = <<>> THEN "default"
    ELSE IF Len(terms) = 1 THEN TermText(terms[1])
    ELSE TermText(terms[1]) \o " " \o conns[1] \o " " \o ConditionText(Tail(terms), Tail(conns))

SeqsOfLen(S, n) == [1..n -> S]

\* the written conditions: "default", every single term, chains of terms
Written ==
    {[terms |-> <<>>, conns |-> <<>>]} \cup
    {[terms |-> <<t>>, conns |-> <<>>] : t \in Terms} \cup
    UNION {{[terms |-> ts, conns |-> cs] : ts \in SeqsOfLen(ChainTerms, n),
                                            cs \in SeqsOfLen({"AND", "OR"}, n - 1)} :
           n \in 2..MaxTerms}

\* scores (tag scores or gauges) and gauge ranges a call is made with
Environments ==
    {[scores |-> [x |-> 2, y |-> 2], ranges |-> [x |-> [min |-> 0, max |-> 2], y |-> [min |-> 2, max |-> 10]]],
     [scores |-> [x |-> 1, y |-> 2], ranges |-> [x |-> [min |-> 3, max |-> 100]]],
     [scores |-> [x |-> 10, y |-> 0], ranges |-> [x |-> [min |-> 10, max |-> 10], y |-> [min |-> 0, max |-> 1]]],
     [scores |-> EmptyDict, ranges |-> EmptyDict]}

EvalInit ==
    /\ phase = "idle"
    /\ store = StoreIdle
    /\ flow = FlowIdle
    /\ context = <<>>
    /\ max_depth = 1
    /\ nodes = <<>>
    /\ current_gauges = EmptyDict
    /\ tasks = <<>>
    /\ accepted = 0
    /\ cfe = CfeIdle
    /\ sub = SubIdle
    /\ val = ValIdle
    /\ game = GameIdle
    /\ \E w \in Written : \E e \in Environments :
          ev = [pc |-> "ready", terms |-> w.terms, conns |-> w.conns,
                condition |-> ConditionText(w.terms, w.conns),
                scores |-> e.scores, ranges |-> e.ranges,
                result |-> None, reachable |-> None]

\* evaluate_condition(condition, tag_scores)
EvaluateCall ==
    /\ ev.pc = "ready"
    /\ ev.result = None
    /\ ev' = [ev EXCEPT !.result = [value |-> evaluate_condition(ev.condition, ev.scores)]]
    /\ UNCHANGED <<treeVars, cfe, sub, val, game, store, flow>>

\* check_condition_reachability(condition, gauge_ranges)
ReachCall ==
    /\ ev.pc = "ready"
    /\ ev.reachable = None
    /\ ev' = [ev EXCEPT !.reachable = [value |-> check_condition_reachability(ev.condition, ev.ranges)]]
    /\ UNCHANGED <<treeVars, cfe, sub, val, game, store, flow>>

EvalNext == EvaluateCall \/ ReachCall

EvalSpec == EvalInit /\ [][EvalNext]_vars

----------------------------------------------------------------------------
(* simulation.simulate_playthrough *)

\* the first node with node.get("parent_id") is None
RECURSIVE FindRoot(_)
FindRoot(ns) ==
    IF ns = <<>> THEN None
    ELSE IF Head(ns).parent_id = None THEN Head(ns)
    ELSE FindRoot(Tail(ns))

\* [n for n in nodes if n.get("parent_id") == current_node.get("id")]
ChildNodes(ns, current_node) == SelectSeq(ns, LAMBDA n : n.parent_id = current_node.id)

\* for i, choice_idx in enumerate(choice_indices): the taken choice is
\* appended, then the child at the same index is looked up
RECURSIVE FollowChoices(_, _, _, _, _)
FollowChoices(ns, current_node, choice_indices, path, choices_made) ==
    IF choice_indices = <<>> THEN [path |-> path, choices_made |-> choices_made]
    ELSE LET choices == DictGet(current_node, "choices", <<>>)
         IN IF choices = <<>> THEN [path |-> path, choices_made |-> choices_made]
            ELSE LET choice_idx == IF Head(choice_indices) >= Len(choices) THEN 0
                                   ELSE Head(choice_indices)
                     made == Append(choices_made, choices[choice_idx + 1])
                     children == ChildNodes(ns, current_node)
                 IN IF choice_idx < Len(children)
                    THEN FollowChoices(ns, children[choice_idx + 1], Tail(choice_indices),
                                       Append(path, children[choice_idx + 1]), made)
                    ELSE [path |-> path, choices_made |-> made]

simulate_playthrough(episode, choice_indices) ==
    LET ns == DictGet(episode, "nodes", <<>>)
        endings == DictGet(episode, "endings", <<>>)
        root == FindRoot(ns)
    IN IF root = None
       THEN [error |-> TRUE, path |-> <<>>, choices_made |-> <<>>, tag_scores |-> EmptyDict,
             reached_ending |-> None, gauge_changes |-> None]
       ELSE LET walk == FollowChoices(ns, root, choice_indices, <<root>>, <<>>)
                reached_ending == determine_episode_ending(walk.choices_made, endings)
            IN [error |-> FALSE, path |-> walk.path, choices_made |-> walk.choices_made,
                tag_scores |-> calculate_tag_scores(walk.choices_made),
                reached_ending |-> reached_ending,
                gauge_changes |-> IF reached_ending # None
                                  THEN DictGet(reached_ending, "gauge_changes", EmptyDict)
                                  ELSE EmptyDict]

\* an episode whose taken choices are removed by the walk
EpisodeAfterPlaythroughConsumed(episode, sim) ==
    IF sim.error \/ sim.choices_made = <<>> THEN episode
    ELSE [episode EXCEPT !.nodes = [k \in 1..Len(episode.nodes) |->
            IF episode.nodes[k] = sim.path[1]
            THEN [episode.nodes[k] EXCEPT !.choices = Tail(@)]
            ELSE episode.nodes[k]]]

\* the episode object after a call: simulate_playthrough only reads it
\* (episode.get, node.get, choices[choice_idx]); path and choices_made are
\* lists of the call
EpisodeAfterPlaythrough(episode, sim) == episode

----------------------------------------------------------------------------
(* simulation.simulate_full_game(result, episode_choices), and a second     *)
(* call of simulate_playthrough on one of its episodes.                     *)

MaxGameEpisodes == 2    \* episodes of a simulated game

TreeNode(path, depth, node_type, choices) ==
    [id |-> [uuid |-> path], depth |-> depth, node_type |-> node_type, choices |-> choices,
     parent_id |-> IF Len(path) = 1 THEN None ELSE [uuid |-> SubSeq(path, 1, Len(path) - 1)]]

TaggedChoice(text, tags) == [text |-> text, tags |-> tags]

\* generate_full_tree(max_depth = 1) with one failed task at depth 1: the
\* nodes at depth 1 are expanded once more and the leaves keep their choices
BuiltNodes ==
    <<TreeNode(<<0>>, 0, "first_choice",
               <<TaggedChoice("join", <<"cooperative">>), TaggedChoice("wait", <<"doubtful">>)>>),
      TreeNode(<<0, 0>>, 1, "ending",
               <<TaggedChoice("share", <<"cooperative", "trusting">>), TaggedChoice("hide", <<"doubtful">>)>>),
      TreeNode(<<0, 1>>, 1, "error", <<>>),
      TreeNode(<<0, 0, 0>>, 2, "development",
               <<TaggedChoice("stay", <<"cooperative">>), TaggedChoice("leave", <<"doubtful">>)>>),
      TreeNode(<<0, 0, 1>>, 2, "development",
               <<TaggedChoice("ask", <<"trusting">>), TaggedChoice("run", <<"doubtful">>)>>)>>

\* a build in which the root call failed
ErrorRootNodes == <<TreeNode(<<0>>, 0, "error", <<>>)>>

UnitedOrQuiet ==
    <<[title |-> "united", condition |-> "cooperative >= 2", gauge_changes |-> [hope |-> 10]],
      [title |-> "quiet", condition |-> "default", gauge_changes |-> [hope |-> 0]]>>

GameEpisodes ==
    {[id |-> "ep1", nodes |-> BuiltNodes, endings |-> UnitedOrQuiet],
     [id |-> "ep2", nodes |-> BuiltNodes,
      endings |-> <<[title |-> "quiet", condition |-> "default", gauge_changes |-> [trust |-> 0 - 20]],
                    [title |-> "broken", condition |-> "doubtful >= 1", gauge_changes |-> [hope |-> 0 - 150]]>>],
     [id |-> "ep3", nodes |-> ErrorRootNodes,
      endings |-> <<[title |-> "plain", gauge_changes |-> [hope |-> 60]]>>],
     [id |-> "ep4", nodes |-> BuiltNodes, endings |-> <<>>]}

IndexLists == {<<0, 0>>, <<0, 0, 1>>, <<7, 1>>, <<1, 0>>}

GameGauges == { <<[id |-> "hope", initial_value |-> 65], [id |-> "trust"]>> }

GameInit ==
    /\ phase = "idle"
    /\ store = StoreIdle
    /\ flow = FlowIdle
    /\ context = <<>>
    /\ max_depth = 1
    /\ nodes = <<>>
    /\ current_gauges = EmptyDict
    /\ tasks = <<>>
    /\ accepted = 0
    /\ cfe = CfeIdle
    /\ sub = SubIdle
    /\ ev = EvIdle
    /\ val = ValIdle
    /\ \E n \in 0..MaxGameEpisodes : \E es \in SeqsOfLen(GameEpisodes, n) :
       \E m \in {k \in {n - 1, n} : k >= 0} : \E cs \in SeqsOfLen(IndexLists, m) :
       \E gs \in GameGauges : \E fe \in FinalEndingLists :
          game = [pc |-> "idle", episodes |-> es,
                  context |-> [gauges |-> gs, final_endings |-> fe],
                  episode_choices |-> cs, arg_episodes |-> es, i |-> 0, sims |-> <<>>,
                  episode_results |-> <<>>, final_gauges |-> None, final_ending |-> None,
                  replay |-> None]

\* episodes = result.get("episodes", []) ... episode_results = []
GameCall ==
    /\ game.pc = "idle"
    /\ game' = [game EXCEPT !.pc = "loop"]
    /\ UNCHANGED <<treeVars, cfe, sub, ev, val, store, flow>>

\* episode_choices[i] if i < len(episode_choices) else []
ChoicesFor(episode_choices, i) == IF i <= Len(episode_choices) THEN episode_choices[i] ELSE <<>>

\* one iteration of: for i, episode in enumerate(episodes)
GamePlaythrough ==
    /\ game.pc = "loop"
    /\ game.i < Len(game.episodes)
    /\ LET i == game.i + 1
           episode == game.arg_episodes[i]
           sim_result == simulate_playthrough(episode, ChoicesFor(game.episode_choices, i))
       IN game' = [game EXCEPT
                     !.i = i,
                     !.sims = Append(@, sim_result),
                     !.arg_episodes[i] = EpisodeAfterPlaythrough(episode, sim_result),
                     !.episode_results = Append(@, [episode_id |-> DictGet(episode, "id", None),
                                                    ending |-> sim_result.reached_ending,
                                                    gauge_changes |-> sim_result.gauge_changes])]
    /\ UNCHANGED <<treeVars, cfe, sub, ev, val, store, flow>>

\* final_result = calculate_final_ending(episode_results, final_endings) and
\* the return; an exception of the call leaves simulate_full_game
GameFinal ==
    /\ game.pc = "loop"
    /\ game.i = Len(game.episodes)
    /\ LET final_result == calculate_final_ending(game.episode_results,
                                                  game.context.final_endings, None)
       IN IF final_result.raised
          THEN game' = [game EXCEPT !.pc = "raised"]
          ELSE game' = [game EXCEPT !.pc = "done",
                                    !.final_gauges = final_result.gauges,
                                    !.final_ending = final_result.ending]
    /\ UNCHANGED <<treeVars, cfe, sub, ev, val, store, flow>>

\* simulate_playthrough called once more on an episode of the game, with the
\* choice indices of the first call
SimulateAgain(i) ==
    /\ game.pc \in {"done", "raised"}
    /\ game.replay = None
    /\ LET episode == game.arg_episodes[i]
           sim_result == simulate_playthrough(episode, ChoicesFor(game.episode_choices, i))
       IN game' = [game EXCEPT !.replay = [i |-> i, sim |-> sim_result],
                               !.arg_episodes[i] = EpisodeAfterPlaythrough(episode, sim_result)]
    /\ UNCHANGED <<treeVars, cfe, sub, ev, val, store, flow>>

GameNext ==
    \/ GameCall
    \/ GamePlaythrough
    \/ GameFinal
    \/ \E i \in 1..Len(game.episodes) : SimulateAgain(i)

GameSpec == GameInit /\ [][GameNext]_vars

----------------------------------------------------------------------------
(* validation.validate_gauge_balance and validation.find_dead_ends *)

\* if change > 0: ranges[gauge_id]["max"] += change, else ["min"] += change
AddChange(gauge_ranges, gauge_id, change) ==
    LET r == DictGet(gauge_ranges, gauge_id, [min |-> 0, max |-> 0])
    IN DictSet(gauge_ranges, gauge_id,
               IF change > 0 THEN [r EXCEPT !.max = @ + change]
               ELSE [r EXCEPT !.min = @ + change])

\* for gauge_id, change in changes.items()
RECURSIVE AddChanges(_, _, _)
AddChanges(gauge_ranges, changes, keys) ==
    IF keys = {} THEN gauge_ranges
    ELSE LET k == CHOOSE x \in keys : TRUE
         IN AddChanges(AddChange(gauge_ranges, k, changes[k]), changes, keys \ {k})

\* for ending in episode.get("endings", [])
RECURSIVE AddEndings(_, _)
AddEndings(gauge_ranges, endings) ==
    IF endings = <<>> THEN gauge_ranges
    ELSE LET changes == DictGet(Head(endings), "gauge_changes", EmptyDict)
         IN AddEndings(AddChanges(gauge_ranges, changes, DOMAIN changes), Tail(endings))

\* for episode in episodes
RECURSIVE AddEpisodes(_, _)
AddEpisodes(gauge_ranges, episodes) ==
    IF episodes = <<>> THEN gauge_ranges
    ELSE AddEpisodes(AddEndings(gauge_ranges, DictGet(Head(episodes), "endings", <<>>)),
                     Tail(episodes))

\* min = max(0, initial_value + min), max = min(100, initial_value + max)
ApplyInitialValue(gauge_ranges, initial_value) ==
    [k \in DOMAIN gauge_ranges |->
        [min |-> Max2(0, initial_value + gauge_ranges[k].min),
         max |-> Min2(100, initial_value + gauge_ranges[k].max)]]

\* for ending in final_endings: reachable, unreachable with a
\* recommendation, or the exception of check_condition_reachability
RECURSIVE ClassifyEndings(_, _, _)
ClassifyEndings(final_endings, gauge_ranges, acc) ==
    IF final_endings = <<>> THEN acc
    ELSE LET ending == Head(final_endings)
             condition == DictGet(ending, "condition", "default")
             is_reachable == check_condition_reachability(condition, gauge_ranges)
         IN IF condition = "default"
            THEN ClassifyEndings(Tail(final_endings), gauge_ranges,
                                 [acc EXCEPT !.reachable = Append(@, ending)])
            ELSE IF is_reachable = "ValueError" THEN [acc EXCEPT !.raised = TRUE]
            ELSE IF is_reachable = "True"
            THEN ClassifyEndings(Tail(final_endings), gauge_ranges,
                                 [acc EXCEPT !.reachable = Append(@, ending)])
            ELSE ClassifyEndings(Tail(final_endings), gauge_ranges,
                                 [acc EXCEPT !.unreachable = Append(@, ending),
                                             !.recommendations = Append(@, DictGet(ending, "title", "?"))])

Titles(endings) == [i \in 1..Len(endings) |-> DictGet(endings[i], "title", None)]

validate_gauge_balance(episodes, final_endings, initial_value) ==
    LET gauge_ranges == ApplyInitialValue(AddEpisodes(EmptyDict, episodes), initial_value)
        acc == ClassifyEndings(final_endings, gauge_ranges,
                               [raised |-> FALSE, reachable |-> <<>>, unreachable |-> <<>>,
                                recommendations |-> <<>>])
    IN [raised |-> acc.raised,
        is_balanced |-> Len(acc.unreachable) = 0,
        reachable_endings |-> Titles(acc.reachable),
        unreachable_endings |-> Titles(acc.unreachable),
        gauge_ranges |-> gauge_ranges,
        recommendations |-> acc.recommendations]

\* a test that leaves the node type out
IsDeadEndWithoutType(node) == DictGet(node, "choices", <<>>) = <<>>

\* node.get("node_type") != "ending" and not node.get("choices")
IsDeadEnd(node) ==
    /\ DictGet(node, "node_type", None) # "ending"
    /\ DictGet(node, "choices", <<>>) = <<>>

RECURSIVE DeadEndsOfNodes(_, _)
DeadEndsOfNodes(episode, ns) ==
    IF ns = <<>> THEN <<>>
    ELSE (IF IsDeadEnd(Head(ns))
          THEN <<[episode_id |-> DictGet(episode, "id", None),
                  node_id |-> DictGet(Head(ns), "id", None),
                  depth |-> DictGet(Head(ns), "depth", None)]>>
          ELSE <<>>)
         \o DeadEndsOfNodes(episode, Tail(ns))

RECURSIVE find_dead_ends(_)
find_dead_ends(episodes) ==
    IF episodes = <<>> THEN <<>>
    ELSE DeadEndsOfNodes(Head(episodes), DictGet(Head(episodes), "nodes", <<>>))
         \o find_dead_ends(Tail(episodes))

\* regenerate_subtree(max_depth = 2) below an edited root: a depth-1 node for
\* which the provider wrote no choices, and an ending without choices
RegeneratedNodes ==
    <<TreeNode(<<0>>, 0, "first_choice",
               <<TaggedChoice("join", <<"cooperative">>), TaggedChoice("wait", <<"doubtful">>)>>),
      TreeNode(<<0, 0>>, 1, "climax", <<>>),
      TreeNode(<<0, 1>>, 1, "climax", <<TaggedChoice("go", <<"trusting">>)>>),
      TreeNode(<<0, 1, 0>>, 2, "ending", <<>>)>>

ValidatedEpisodes ==
    GameEpisodes \cup {[id |-> "ep5", nodes |-> RegeneratedNodes, endings |-> UnitedOrQuiet]}

ValidatedEndingLists ==
    FinalEndingLists \cup
    { <<[title |-> "calm", condition |-> "trust <= 60"],
        [title |-> "high", condition |-> "hope >= 100 OR trust > 90"],
        [title |-> "never", condition |-> "hope > 100"],
        [title |-> "neutral", condition |-> "default"]>> }

ValidInit ==
    /\ phase = "idle"
    /\ store = StoreIdle
    /\ flow = FlowIdle
    /\ context = <<>>
    /\ max_depth = 1
    /\ nodes = <<>>
    /\ current_gauges = EmptyDict
    /\ tasks = <<>>
    /\ accepted = 0
    /\ cfe = CfeIdle
    /\ sub = SubIdle
    /\ ev = EvIdle
    /\ game = GameIdle
    /\ \E n \in 0..MaxGameEpisodes : \E es \in SeqsOfLen(ValidatedEpisodes, n) :
       \E fe \in ValidatedEndingLists : \E iv \in {50, 90} :
          val = [pc |-> "ready", episodes |-> es, final_endings |-> fe, initial_value |-> iv,
                 report |-> None, dead_ends |-> None]

\* validate_gauge_balance(episodes, final_endings, initial_value)
ValidateCall ==
    /\ val.pc = "ready"
    /\ val.report = None
    /\ val' = [val EXCEPT !.report = validate_gauge_balance(val.episodes, val.final_endings,
                                                            val.initial_value)]
    /\ UNCHANGED <<treeVars, cfe, sub, ev, game, store, flow>>

\* find_dead_ends(episodes)
DeadEndsCall ==
    /\ val.pc = "ready"
    /\ val.dead_ends = None
    /\ val' = [val EXCEPT !.dead_ends = [list |-> find_dead_ends(val.episodes)]]
    /\ UNCHANGED <<treeVars, cfe, sub, ev, game, store, flow>>

ValidNext == ValidateCall \/ DeadEndsCall

ValidSpec == ValidInit /\ [][ValidNext]_vars

----------------------------------------------------------------------------
(* validation.check_tag_coverage *)

SeqRange(s) == {s[i] : i \in 1..Len(s)}

\* for node in nodes: for choice in choices: for tag in tags: all_tags.add(tag)
TagsOfNodes(ns) ==
    UNION {UNION {SeqRange(DictGet(c, "tags", <<>>)) : c \in SeqRange(DictGet(n, "choices", <<>>))} :
           n \in SeqRange(ns)}

\* for ending in endings: for tag in all_tags: if tag in condition
TagsInConditions(all_tags, endings) ==
    {tag \in all_tags : \E i \in 1..Len(endings) : StrIn(tag, DictGet(endings[i], "condition", ""))}

\* for episode in episodes: the tags of the episode are collected, then the
\* conditions of its endings are scanned for the tags collected so far
RECURSIVE CoverageLoop(_, _, _)
CoverageLoop(episodes, all_tags, used_tags) ==
    IF episodes = <<>> THEN [all_tags |-> all_tags, used_tags |-> used_tags]
    ELSE LET episode == Head(episodes)
             collected == all_tags \cup TagsOfNodes(DictGet(episode, "nodes", <<>>))
             used == used_tags \cup TagsInConditions(collected, DictGet(episode, "endings", <<>>))
         IN CoverageLoop(Tail(episodes), collected, used)

\* the lists of the report are sets here; coverage_rate is the pair
\* <<len(used_tags), len(all_tags)>> of the quotient, <<1, 1>> for 1.0
check_tag_coverage(episodes) ==
    LET r == CoverageLoop(episodes, {}, {})
    IN [all_tags |-> r.all_tags,
        used_in_conditions |-> r.used_tags,
        unused_tags |-> r.all_tags \ r.used_tags,
        coverage_rate |-> IF r.all_tags # {}
                          THEN <<Cardinality(r.used_tags), Cardinality(r.all_tags)>>
                          ELSE <<1, 1>>]

----------------------------------------------------------------------------
(* simulation.get_all_possible_endings *)

\* next((n for n in nodes if n.get("id") == node_id), None)
RECURSIVE NodeById(_, _)
NodeById(ns, node_id) ==
    IF ns = <<>> THEN None
    ELSE IF Head(ns).id = node_id THEN Head(ns)
    ELSE NodeById(Tail(ns), node_id)

RECURSIVE find_all_paths(_, _, _)
RECURSIVE PathsOfChildren(_, _, _)
\* find_all_paths(node_id, current_path, all_paths): the paths it appends
find_all_paths(ns, node_id, current_path) ==
    LET node == NodeById(ns, node_id)
    IN IF node = None THEN <<>>
       ELSE LET path == Append(current_path, node)
                children == ChildNodes(ns, node)
            IN IF children = <<>> \/ DictGet(node, "choices", <<>>) = <<>>
               THEN <<path>>
               ELSE PathsOfChildren(ns, children, path)

PathsOfChildren(ns, children, path) ==
    IF children = <<>> THEN <<>>
    ELSE find_all_paths(ns, Head(children).id, path) \o PathsOfChildren(ns, Tail(children), path)

\* the choices along a path: for each node but the last, the choice at the
\* position of the next node among the children of the node
RECURSIVE PathChoices(_, _, _)
PathChoices(ns, path, i) ==
    IF i >= Len(path) THEN <<>>
    ELSE LET node == path[i]
             choices == DictGet(node, "choices", <<>>)
             children == ChildNodes(ns, node)
             js == {j \in 1..Len(children) : children[j].id = path[i + 1].id /\ j <= Len(choices)}
             first == CHOOSE j \in js : \A k \in js : j <= k
         IN (IF choices # <<>> /\ js # {} THEN <<choices[first]>> ELSE <<>>)
            \o PathChoices(ns, path, i + 1)

PathResult(ns, endings, path) ==
    LET choices_made == PathChoices(ns, path, 1)
        reached_ending == determine_episode_ending(choices_made, endings)
    IN [path_length |-> Len(path),
        tag_scores |-> calculate_tag_scores(choices_made),
        ending |-> IF reached_ending # None THEN DictGet(reached_ending, "title", None) ELSE "none",
        gauge_changes |-> IF reached_ending # None
                          THEN DictGet(reached_ending, "gauge_changes", EmptyDict)
                          ELSE EmptyDict]

get_all_possible_endings(episode) ==
    LET ns == DictGet(episode, "nodes", <<>>)
        endings == DictGet(episode, "endings", <<>>)
        root == FindRoot(ns)
    IN IF root = None THEN <<>>
       ELSE LET all_paths == find_all_paths(ns, root.id, <<>>)
            IN [k \in 1..Len(all_paths) |-> PathResult(ns, endings, all_paths[k])]

----------------------------------------------------------------------------
(* simulation.simulate_full_game as one call *)

RECURSIVE EpisodeResultsFrom(_, _, _)
EpisodeResultsFrom(episodes, episode_choices, i) ==
    IF i > Len(episodes) THEN <<>>
    ELSE LET sim_result == simulate_playthrough(episodes[i], ChoicesFor(episode_choices, i))
         IN <<[episode_id |-> DictGet(episodes[i], "id", None),
               ending |-> sim_result.reached_ending,
               gauge_changes |-> sim_result.gauge_changes]>>
            \o EpisodeResultsFrom(episodes, episode_choices, i + 1)

simulate_full_game(result, episode_choices) ==
    LET episodes == DictGet(result, "episodes", <<>>)
        final_endings == DictGet(DictGet(result, "context", EmptyDict), "final_endings", <<>>)
        episode_results == EpisodeResultsFrom(episodes, episode_choices, 1)
        final_result == calculate_final_ending(episode_results, final_endings, None)
    IN [raised |-> final_result.raised,
        episode_results |-> episode_results,
        final_gauges |-> final_result.gauges,
        final_ending |-> final_result.ending]

----------------------------------------------------------------------------
(* crud.delete_node *)

\* a collection that stops at the children of the named node
CollectToDeleteChildrenOnly(ns, to_delete) ==
    to_delete \cup {ns[k].id : k \in {j \in 1..Len(ns) : DictGet(ns[j], "parent_id", None) \in to_delete}}

RECURSIVE CollectToDelete(_, _)
\* while changed: every node whose parent_id is in to_delete joins to_delete
CollectToDelete(ns, to_delete) ==
    LET found == {ns[k].id : k \in {j \in 1..Len(ns) :
                                      DictGet(ns[j], "parent_id", None) \in to_delete}} \ to_delete
    IN IF found = {} THEN to_delete ELSE CollectToDelete(ns, to_delete \cup found)

\* the list of episodes after the call, and the returned flag
delete_node(episodes, episode_id, node_id) ==
    LET matches == {i \in 1..Len(episodes) : DictGet(episodes[i], "id", None) = episode_id}
    IN IF matches = {} THEN [episodes |-> episodes, returned |-> FALSE]
       ELSE LET i == CHOOSE m \in matches : \A k \in matches : m <= k
                ns == DictGet(episodes[i], "nodes", <<>>)
                to_delete == CollectToDelete(ns, {node_id})
                kept == SelectSeq(ns, LAMBDA n : n.id \notin to_delete)
            IN [episodes |-> [episodes EXCEPT ![i] = [k \in (DOMAIN @) \cup {"nodes"} |->
                                                        IF k = "nodes" THEN kept ELSE @[k]]],
                returned |-> Len(kept) < Len(ns)]

----------------------------------------------------------------------------
(* A stored story: a list of episodes on which the library is called, the   *)
(* validators and simulators on the list or on one of its episodes, and     *)
(* crud.delete_node.                                                        *)

MaxStored == 2      \* episodes of the stored list
MaxEdits == 2       \* delete_node calls on one stored list

\* an episode whose ending conditions name a tag that only the choices of
\* another episode carry
LateTagNodes ==
    <<TreeNode(<<0>>, 0, "first_choice",
               <<TaggedChoice("help", <<"cooperative">>), TaggedChoice("watch", <<"cooperative">>)>>),
      TreeNode(<<0, 0>>, 1, "ending", <<>>),
      TreeNode(<<0, 1>>, 1, "ending", <<>>)>>

StoredEpisodes ==
    {[id |-> "ep1", nodes |-> BuiltNodes, endings |-> UnitedOrQuiet],
     [id |-> "ep6", nodes |-> LateTagNodes,
      endings |-> <<[title |-> "close", condition |-> "trusting >= 1 OR cooperative >= 1",
                     gauge_changes |-> [trust |-> 10]],
                    [title |-> "far", condition |-> "default", gauge_changes |-> [trust |-> 0 - 10]]>>]}

StoredEpisodeIds == {"ep1", "ep6", "ep9"}

StoredNodeIds == {[uuid |-> <<0>>], [uuid |-> <<0, 0>>], [uuid |-> <<0, 1>>],
                  [uuid |-> <<0, 0, 0>>], [uuid |-> <<9>>]}

StoredIndexLists == {<<0, 0>>, <<1, 0>>}

\* the final endings of the stored story
StoredFinalEndings ==
    <<[title |-> "good", condition |-> "hope >= 70"],
      [title |-> "neutral", condition |-> "default"]>>

\* the list of episodes after a call of validation.py: find_dead_ends,
\* check_tag_coverage and validate_gauge_balance read it with get(), items()
\* and iteration, and write only to dicts, sets and lists of the call
EpisodesAfterValidation(episodes) == episodes

\* a traversal that takes the nodes it visits out of the episode
EpisodeAfterAllEndingsDrained(episode) ==
    [k \in DOMAIN episode |-> IF k = "nodes" /\ FindRoot(episode.nodes) # None
                              THEN Tail(episode.nodes) ELSE episode[k]]

\* the episode after get_all_possible_endings: current_path + [node] builds
\* a new list at every step, all_paths and results belong to the call
EpisodeAfterAllEndings(episode) == episode

\* the episodes after simulate_full_game: each one after its playthrough
EpisodesAfterFullGame(episodes, episode_choices) ==
    [i \in 1..Len(episodes) |->
        EpisodeAfterPlaythrough(episodes[i],
                                simulate_playthrough(episodes[i], ChoicesFor(episode_choices, i)))]

StoreInit ==
    /\ phase = "idle"
    /\ flow = FlowIdle
    /\ context = <<>>
    /\ max_depth = 1
    /\ nodes = <<>>
    /\ current_gauges = EmptyDict
    /\ tasks = <<>>
    /\ accepted = 0
    /\ cfe = CfeIdle
    /\ sub = SubIdle
    /\ ev = EvIdle
    /\ val = ValIdle
    /\ game = GameIdle
    /\ \E n \in 1..MaxStored : \E es \in SeqsOfLen(StoredEpisodes, n) :
          store = [pc |-> "stored", episodes |-> es, op |-> [name |-> "none"],
                   result |-> None, edits |-> 0]

StoreFindDeadEnds ==
    /\ store.pc = "stored"
    /\ store' = [store EXCEPT !.op = [name |-> "find_dead_ends"],
                              !.result = find_dead_ends(store.episodes),
                              !.episodes = EpisodesAfterValidation(store.episodes)]
    /\ UNCHANGED <<treeVars, cfe, sub, ev, val, game, flow>>

StoreTagCoverage ==
    /\ store.pc = "stored"
    /\ store' = [store EXCEPT !.op = [name |-> "check_tag_coverage"],
                              !.result = check_tag_coverage(store.episodes),
                              !.episodes = EpisodesAfterValidation(store.episodes)]
    /\ UNCHANGED <<treeVars, cfe, sub, ev, val, game, flow>>

StoreGaugeBalance(initial_value) ==
    /\ store.pc = "stored"
    /\ store' = [store EXCEPT !.op = [name |-> "validate_gauge_balance"],
                              !.result = validate_gauge_balance(store.episodes, StoredFinalEndings,
                                                                initial_value),
                              !.episodes = EpisodesAfterValidation(store.episodes)]
    /\ UNCHANGED <<treeVars, cfe, sub, ev, val, game, flow>>

StorePlaythrough(i, choice_indices) ==
    /\ store.pc = "stored"
    /\ LET sim_result == simulate_playthrough(store.episodes[i], choice_indices)
       IN store' = [store EXCEPT !.op = [name |-> "simulate_playthrough", i |-> i],
                                 !.result = sim_result,
                                 !.episodes[i] = EpisodeAfterPlaythrough(@, sim_result)]
    /\ UNCHANGED <<treeVars, cfe, sub, ev, val, game, flow>>

StoreFullGame(choice_indices) ==
    /\ store.pc = "stored"
    /\ LET episode_choices == <<choice_indices>>
       IN store' = [store EXCEPT
                      !.op = [name |-> "simulate_full_game"],
                      !.result = simulate_full_game([episodes |-> store.episodes,
                                                     context |-> [final_endings |-> StoredFinalEndings]],
                                                    episode_choices),
                      !.episodes = EpisodesAfterFullGame(store.episodes, episode_choices)]
    /\ UNCHANGED <<treeVars, cfe, sub, ev, val, game, flow>>

StoreAllEndings(i) ==
    /\ store.pc = "stored"
    /\ store' = [store EXCEPT !.op = [name |-> "get_all_possible_endings", i |-> i],
                              !.result = get_all_possible_endings(store.episodes[i]),
                              !.episodes[i] = EpisodeAfterAllEndings(@)]
    /\ UNCHANGED <<treeVars, cfe, sub, ev, val, game, flow>>

StoreDeleteNode(episode_id, node_id) ==
    /\ store.pc = "stored"
    /\ store.edits < MaxEdits
    /\ LET out == delete_node(store.episodes, episode_id, node_id)
       IN store' = [store EXCEPT !.op = [name |-> "delete_node", episode_id |-> episode_id,
                                         node_id |-> node_id],
                                 !.result = out.returned,
                                 !.episodes = out.episodes,
                                 !.edits = @ + 1]
    /\ UNCHANGED <<treeVars, cfe, sub, ev, val, game, flow>>

StoreNext ==
    \/ StoreFindDeadEnds
    \/ StoreTagCoverage
    \/ \E initial_value \in {DefaultGauge, 90} : StoreGaugeBalance(initial_value)
    \/ \E i \in 1..Len(store.episodes) : \E cs \in StoredIndexLists : StorePlaythrough(i, cs)
    \/ \E cs \in StoredIndexLists : StoreFullGame(cs)
    \/ \E i \in 1..Len(store.episodes) : StoreAllEndings(i)
    \/ \E e \in StoredEpisodeIds : \E n \in StoredNodeIds : StoreDeleteNode(e, n)

StoreSpec == StoreInit /\ [][StoreNext]_vars

----------------------------------------------------------------------------
(* director.design_final_endings and director.design_episode_endings: the   *)
(* provider writes a list under "endings", and an empty list (or a reply    *)
(* without the key) is replaced by a fallback.                              *)

ProvidedEnding(title, condition) == [title |-> title, condition |-> condition,
                                     gauge_changes |-> [hope |-> 10]]

\* _parse_json(response.content).get("endings", []): nothing validates the
\* conditions the provider wrote
ProviderEndingLists ==
    { <<>>,
      <<ProvidedEnding("warm", "cooperative >= 2"), ProvidedEnding("plain", "default")>>,
      <<ProvidedEnding("warm", "cooperative >= 2"), ProvidedEnding("cold", "doubtful >= 2")>>,
      <<ProvidedEnding("plain", "default"), ProvidedEnding("other", "default")>>,
      <<ProvidedEnding("warm", "hope >= 70"), [title |-> "open", gauge_changes |-> EmptyDict]>> }

\* design_final_endings: the provider's list, or the one "default" ending
design_final_endings(endings) ==
    IF endings = <<>>
    THEN [raised |-> FALSE,
          endings |-> <<[id |-> "ending_default", type |-> "neutral", condition |-> "default"]>>]
    ELSE [raised |-> FALSE, endings |-> endings]

\* design_episode_endings: the provider's list; building the fallback list
\* evaluates "gauge_changes": {{}}, a set display holding a dict, which
\* raises TypeError before anything is returned
design_episode_endings(endings) ==
    IF endings = <<>>
    THEN [raised |-> TRUE, endings |-> <<>>]
    ELSE [raised |-> FALSE, endings |-> endings]

----------------------------------------------------------------------------
(* generator._validate_and_clean_node_structure and generate_single_episode *)

LongReaction == "She looks at you in silence."

ShortReaction == "He nods."

BlankReaction == "   "

MinReactionLength == 20

ReactionChoice(text, reaction) == [text |-> text, immediate_reaction |-> reaction]

GeneratedNode(id, choices, children) == [id |-> id, choices |-> choices, children |-> children]

GeneratedLeaf(id) == GeneratedNode(id, <<>>, <<>>)

TwoLeaves == <<GeneratedLeaf("n1"), GeneratedLeaf("n2")>>

\* the parsed start_node of the provider's episode
GeneratedStartNodes ==
    { GeneratedNode("n0", <<ReactionChoice("go", LongReaction), ReactionChoice("stay", LongReaction)>>,
                    TwoLeaves),
      GeneratedNode("n0", <<ReactionChoice("go", LongReaction)>>, <<GeneratedLeaf("n1")>>),
      GeneratedNode("n0", [i \in 1..(max_items + 1) |-> ReactionChoice("go", LongReaction)],
                    [i \in 1..(max_items + 1) |-> GeneratedLeaf("n1")]),
      GeneratedNode("n0", <<ReactionChoice("go", LongReaction), [text |-> "stay"]>>, TwoLeaves),
      GeneratedNode("n0", <<ReactionChoice("go", BlankReaction), ReactionChoice("stay", LongReaction)>>,
                    TwoLeaves),
      GeneratedNode("n0", <<ReactionChoice("go", LongReaction), ReactionChoice("stay", LongReaction)>>,
                    <<GeneratedNode("n1", <<ReactionChoice("ask", ShortReaction),
                                            ReactionChoice("run", LongReaction)>>, <<>>),
                      GeneratedLeaf("n2")>>) }

\* reaction = choice.get("immediate_reaction", "").strip(); not reaction, or
\* len(reaction) < 20, raises ValueError
ChoiceRaises(choice) ==
    LET reaction == StrStrip(DictGet(choice, "immediate_reaction", ""))
    IN reaction = "" \/ Len(reaction) < MinReactionLength

RECURSIVE NodeRaises(_)
\* the call raises for the node or for a node below it
NodeRaises(node) ==
    \/ \E i \in 1..Len(DictGet(node, "choices", <<>>)) : ChoiceRaises(node.choices[i])
    \/ \E i \in 1..Len(DictGet(node, "children", <<>>)) : NodeRaises(node.children[i])

\* _validate_and_clean_node_structure(node): raises or returns; no statement
\* of it assigns to the node
validate_and_clean_node_structure(node) ==
    [raised |-> NodeRaises(node), node |-> node]

\* generate_single_episode from the parsed reply on: the validation sits
\* outside the try block, start_node becomes nodes, EpisodeModel(**data)
generate_single_episode(data) ==
    LET checked == validate_and_clean_node_structure(data.start_node)
    IN IF checked.raised THEN [raised |-> TRUE, episode |-> None]
       ELSE [raised |-> FALSE,
             episode |-> [start_node |-> checked.node, nodes |-> <<checked.node>>,
                          endings |-> data.endings]]

----------------------------------------------------------------------------
(* main_flow from the design of the final endings on, one episode per       *)
(* iteration with the tree of generate_full_tree, and                       *)
(* generate_single_episode as the other way to get an episode.              *)

MaxFlowEpisodes == 2    \* episode templates of one main_flow

FlowInit ==
    /\ phase = "idle"
    /\ store = StoreIdle
    /\ context = <<>>
    /\ max_depth = 1
    /\ nodes = <<>>
    /\ current_gauges = EmptyDict
    /\ tasks = <<>>
    /\ accepted = 0
    /\ cfe = CfeIdle
    /\ sub = SubIdle
    /\ ev = EvIdle
    /\ val = ValIdle
    /\ game = GameIdle
    /\ flow = [pc |-> "start", final_endings |-> <<>>, episodes |-> <<>>,
               data |-> None, episode |-> None, error |-> "none"]

\* final_endings = await director.design_final_endings(...)
FlowDesignFinalEndings(endings) ==
    /\ flow.pc = "start"
    /\ flow' = [flow EXCEPT !.pc = "episodes",
                            !.final_endings = design_final_endings(endings).endings]
    /\ UNCHANGED <<treeVars, cfe, sub, ev, val, game, store>>

\* one iteration of: for ep_template in episode_templates
FlowCompleteEpisode(endings) ==
    /\ flow.pc = "episodes"
    /\ Len(flow.episodes) < MaxFlowEpisodes
    /\ LET episode_endings == design_episode_endings(endings)
       IN IF episode_endings.raised
          THEN flow' = [flow EXCEPT !.pc = "raised", !.error = "TypeError"]
          ELSE flow' = [flow EXCEPT !.episodes = Append(@, [nodes |-> BuiltNodes,
                                                            endings |-> episode_endings.endings])]
    /\ UNCHANGED <<treeVars, cfe, sub, ev, val, game, store>>

\* result = {"context": {..., "final_endings": final_endings}, "episodes": ...}
FlowReturn ==
    /\ flow.pc = "episodes"
    /\ flow' = [flow EXCEPT !.pc = "returned"]
    /\ UNCHANGED <<treeVars, cfe, sub, ev, val, game, store>>

\* generate_single_episode on the parsed reply of the provider
FlowSingleEpisode(start_node, endings) ==
    /\ flow.pc = "start"
    /\ LET data == [start_node |-> start_node, endings |-> endings]
           out == generate_single_episode(data)
       IN IF out.raised
          THEN flow' = [flow EXCEPT !.pc = "raised", !.error = "ValueError", !.data = data]
          ELSE flow' = [flow EXCEPT !.pc = "generated", !.data = data, !.episode = out.episode]
    /\ UNCHANGED <<treeVars, cfe, sub, ev, val, game, store>>

FlowNext ==
    \/ \E endings \in ProviderEndingLists : FlowDesignFinalEndings(endings)
    \/ \E endings \in ProviderEndingLists : FlowCompleteEpisode(endings)
    \/ FlowReturn
    \/ \E start_node \in GeneratedStartNodes : \E endings \in ProviderEndingLists :
          FlowSingleEpisode(start_node, endings)

FlowSpec == FlowInit /\ [][FlowNext]_vars

----------------------------------------------------------------------------
(* Properties of the tree build *)

NodeIdx == 1..Len(nodes)

TaskIdx == 1..Len(tasks)

NodesAt(d) == {i \in NodeIdx : nodes[i].depth = d}

ChildrenOf(i) == {j \in NodeIdx : nodes[j].parent_id = nodes[i].id}

RECURSIVE ChoicesAt(_, _)
ChoicesAt(ns, d) ==
    IF ns = <<>> THEN 0
    ELSE (IF Head(ns).depth = d THEN Len(Head(ns).choices) ELSE 0) + ChoicesAt(Tail(ns), d)

\* C1: in a returned tree every node at depth max_depth has an empty choice
\* list, whatever the provider returned for it.
C1_MaxDepthNodesHaveNoChoices ==
    phase = "done" =>
        \A i \in NodeIdx : nodes[i].depth = max_depth => nodes[i].choices = <<>>

\* C2: no tree contains a node deeper than max_depth; only nodes with
\* depth < max_depth are expanded.
C2_NoNodeBeyondMaxDepth ==
    /\ \A i \in NodeIdx : nodes[i].depth <= max_depth
    /\ \A t \in TaskIdx : tasks[t].input.has_task =>
            tasks[t].input.task.parent_node.depth < max_depth
    /\ sub.current_depth < sub.max_depth =>
            \A i \in 1..Len(sub.nodes) : sub.nodes[i].depth <= sub.max_depth

\* the part of C2 that regenerate_subtree alone answers for
SubtreeWithinMaxDepth ==
    sub.current_depth < sub.max_depth =>
        /\ \A i \in 1..Len(sub.nodes) : sub.nodes[i].depth <= sub.max_depth
        /\ \A i \in 1..Len(sub.stack) : sub.stack[i].depth <= sub.max_depth

\* C3: after every round the node list has exactly one node without parent,
\* the root at depth 0, and every other node's parent_id is the id of a node
\* already in the list whose depth is one less.
C3_OneRootAndParentsOneLevelUp ==
    nodes # <<>> =>
        /\ Cardinality({i \in NodeIdx : nodes[i].parent_id = None}) = 1
        /\ \A i \in NodeIdx : nodes[i].parent_id = None => nodes[i].depth = 0
        /\ \A i \in NodeIdx : nodes[i].parent_id # None =>
               \E j \in 1..(i - 1) : /\ nodes[j].id = nodes[i].parent_id
                                     /\ nodes[j].depth = nodes[i].depth - 1

C3_Witness ==
    /\ phase = "done"
    /\ \E i \in NodeIdx : nodes[i].depth = 2
    /\ \E i \in NodeIdx : nodes[i].node_type = "error"

C4_FallbackShape ==
    \A t \in TaskIdx : (tasks[t].status = "done" /\ ~tasks[t].valid) =>
        /\ Len(tasks[t].writes.nodes) = 1
        /\ tasks[t].writes.nodes[1].node_type = "error"
        /\ tasks[t].writes.nodes[1].choices = <<>>
        /\ tasks[t].writes.nodes[1].depth =
               (IF tasks[t].input.has_task THEN tasks[t].input.task.depth ELSE 0)
        /\ tasks[t].writes.nodes[1].parent_id =
               (IF tasks[t].input.has_task THEN tasks[t].input.task.parent_node.id ELSE None)
        /\ tasks[t].sends = <<>>

C4_ErrorNeverExpanded ==
    /\ \A i \in NodeIdx : nodes[i].node_type = "error" => ChildrenOf(i) = {}
    /\ \A t \in TaskIdx : tasks[t].input.has_task =>
            tasks[t].input.task.parent_node.node_type # "error"

C4_EveryTaskAddsItsNode ==
    (phase = "running" /\ nodes' # nodes) =>
        /\ Len(nodes') = Len(nodes) + Len(tasks)
        /\ \A t \in TaskIdx : nodes'[Len(nodes) + t] = tasks[t].writes.nodes[1]

\* C4: a failed or structurally invalid provider response yields exactly one
\* fallback node of type "error" with no choices and the task's depth and
\* parent; the build does not raise, every task of the round still adds its
\* own node, and an error node is never expanded.
C4_FailureStaysLocal ==
    /\ [](phase # "raised" /\ C4_FallbackShape /\ C4_ErrorNeverExpanded)
    /\ [][C4_EveryTaskAddsItsNode]_vars

C4_Witness ==
    /\ phase = "done"
    /\ \E i, j \in NodeIdx :
          /\ nodes[i].node_type = "error"
          /\ nodes[j].parent_id = nodes[i].parent_id
          /\ nodes[j].node_type # "error"
          /\ ChildrenOf(j) # {}

\* C5: all tasks in flight belong to one depth round, every node of the list
\* is shallower than they are, and each task's parent node and the choice it
\* follows are in the node list.
C5_RoundsAreDepthSynchronous ==
    \A t \in TaskIdx :
        /\ \A u \in TaskIdx : TaskDepth(tasks[u].input) = TaskDepth(tasks[t].input)
        /\ \A i \in NodeIdx : nodes[i].depth < TaskDepth(tasks[t].input)
        /\ tasks[t].input.has_task =>
               \E i \in NodeIdx :
                  /\ nodes[i] = tasks[t].input.task.parent_node
                  /\ nodes[i].depth = tasks[t].input.task.depth - 1
                  /\ tasks[t].input.task.choice_index + 1 \in 1..Len(nodes[i].choices)
                  /\ nodes[i].choices[tasks[t].input.task.choice_index + 1] =
                        tasks[t].input.task.choice_taken

C5_Witness ==
    \E t, u \in TaskIdx :
        /\ tasks[t].status = "pending"
        /\ tasks[u].status = "done"
        /\ tasks[u].sends # <<>>
        /\ TaskDepth(tasks[t].input) = 2

\* C6: in a completed tree every node shallower than max_depth with choices has
\* exactly one child per choice, so depth d+1 holds as many nodes as depth d
\* has choices; with max_depth 2 and fan-out 2 at depths 0 and 1 the tree has
\* exactly 7 nodes, 4 of them terminal at depth 2.
C6_OneChildPerChoice ==
    phase = "done" =>
        /\ \A i \in NodeIdx : (nodes[i].depth < max_depth /\ nodes[i].choices # <<>>) =>
               /\ Cardinality(ChildrenOf(i)) = Len(nodes[i].choices)
               /\ \A k \in 1..Len(nodes[i].choices) :
                     Cardinality({j \in ChildrenOf(i) : nodes[j].id.uuid = Append(nodes[i].id.uuid, k - 1)}) = 1
        /\ \A d \in 0..(max_depth - 1) : Cardinality(NodesAt(d + 1)) = ChoicesAt(nodes, d)
        /\ (/\ max_depth = 2
            /\ ChoicesAt(nodes, 0) = 2
            /\ \A i \in NodesAt(1) : Len(nodes[i].choices) = 2)
           => /\ Len(nodes) = 7
              /\ Cardinality({i \in NodesAt(2) : nodes[i].choices = <<>>}) = 4

\* C7: the build terminates whatever the provider does: it reaches the point
\* of return with no task left, and when every call failed the tree is a
\* single error root.
C7_BuildTerminates ==
    /\ <>[](phase = "done" /\ tasks = <<>>)
    /\ []((phase = "done" /\ accepted = 0) =>
             (Len(nodes) = 1 /\ nodes[1].node_type = "error" /\ nodes[1].depth = 0))

C7_Witness ==
    /\ phase = "done"
    /\ accepted = 0
    /\ Len(nodes) = 1
    /\ nodes[1].node_type = "error"

IsBaseline(g) ==
    /\ DOMAIN g = {context[i].id : i \in DOMAIN context}
    /\ \A i \in DOMAIN context :
          g[context[i].id] = (IF "initial_value" \in DOMAIN context[i]
                              THEN context[i].initial_value ELSE 50)

\* C8: during the build the gauge snapshot equals the baseline of the gauge
\* definitions: every task receives it, every task writes it back unchanged,
\* so no two tasks of a round write differing values.
C8_GaugesStayAtBaseline ==
    phase # "idle" =>
        /\ IsBaseline(current_gauges)
        /\ \A t \in TaskIdx :
              /\ IsBaseline(tasks[t].input.current_gauges)
              /\ tasks[t].status = "done" => IsBaseline(tasks[t].writes.current_gauges)

C8_Witness ==
    /\ phase = "running"
    /\ \E t, u \in TaskIdx :
          /\ t # u
          /\ tasks[t].status = "done" /\ tasks[t].valid
          /\ tasks[u].status = "done" /\ ~tasks[u].valid
          /\ tasks[t].input.has_task
    /\ \E i \in NodeIdx : nodes[i].depth = 1

----------------------------------------------------------------------------
(* Properties of the gauge state *)

InRange(v) == 0 <= v /\ v <= 100

\* C9: every gauge value of every gauge state the program builds or returns
\* lies in [0,100]: the baseline of a build and the state returned by
\* calculate_final_ending.
C9_GaugeValuesInRange ==
    /\ \A k \in DOMAIN current_gauges : InRange(current_gauges[k])
    /\ cfe.pc = "done" => \A k \in DOMAIN cfe.gauges : InRange(cfe.gauges[k])

Plus60 == [ending |-> [gauge_changes |-> [hope |-> 60]]]

Minus150 == [ending |-> [gauge_changes |-> [hope |-> 0 - 150]]]

\* value of gauge k before an iteration, as the loop reads it
Before(k) == IF k \in DOMAIN cfe.gauges THEN cfe.gauges[k] ELSE 50

C10_EachDeltaClamped ==
    (cfe.pc = "loop" /\ cfe'.i = cfe.i + 1) =>
        LET r == cfe.episode_results[cfe.i + 1]
            ch == IF "gauge_changes" \in DOMAIN r.ending THEN r.ending.gauge_changes ELSE EmptyDict
        IN /\ DOMAIN cfe'.gauges = (DOMAIN cfe.gauges) \cup (DOMAIN ch)
           /\ \A k \in DOMAIN ch :
                 cfe'.gauges[k] = (IF Before(k) + ch[k] > 100 THEN 100
                                   ELSE IF Before(k) + ch[k] < 0 THEN 0
                                   ELSE Before(k) + ch[k])
           /\ \A k \in (DOMAIN cfe.gauges) \ (DOMAIN ch) : cfe'.gauges[k] = cfe.gauges[k]

C10_Scenario ==
    /\ (cfe.initial_gauges = [hope |-> 50] /\ cfe.episode_results = <<Plus60, Minus150>>) =>
          /\ cfe.i = 1 => cfe.gauges.hope = 100
          /\ cfe.i = 2 => cfe.gauges.hope = 0
    /\ (cfe.initial_gauges = [hope |-> 50] /\ cfe.episode_results = <<Minus150, Plus60>>) =>
          /\ cfe.i = 1 => cfe.gauges.hope = 0
          /\ cfe.i = 2 => cfe.gauges.hope = 60

\* C10: the deltas of the reached endings are applied one episode after the
\* other, each single delta clamped to [0,100]; from hope=50, +60 then -150
\* gives 100 and then 0, while -150 then +60 ends at 60.
C10_SequentialClampedFold == []C10_Scenario /\ [][C10_EachDeltaClamped]_vars

C10_Witness ==
    /\ cfe.pc = "done"
    /\ cfe.initial_gauges = [hope |-> 50]
    /\ cfe.episode_results = <<Plus60, Minus150>>
    /\ cfe.gauges = [hope |-> 0]

----------------------------------------------------------------------------
(* Properties of the expression evaluator *)

\* score of an identifier: 0 when the map does not have it
Score(scores, id) == IF id \in DOMAIN scores THEN scores[id] ELSE 0

\* what the right-hand side of a term stands for
RightValue(scores, r) == IF r \in DOMAIN LiteralValue THEN LiteralValue[r] ELSE Score(scores, r)

TermHolds(t, scores) ==
    LET a == Score(scores, t.left)
        b == RightValue(scores, t.right)
    IN \/ t.op = ">=" /\ (a > b \/ a = b)
       \/ t.op = "<=" /\ (a < b \/ a = b)
       \/ t.op = "==" /\ a = b
       \/ t.op = ">" /\ a > b
       \/ t.op = "<" /\ a < b

PartOf(conns, i) == Cardinality({j \in 1..(i - 1) : conns[j] = "AND"})

\* the AND of the parts, each part the OR of its terms
AndOfOrs(terms, conns, holds(_)) ==
    \A g \in 0..PartOf(conns, Len(terms)) :
        \E i \in 1..Len(terms) : PartOf(conns, i) = g /\ holds(terms[i])

\* a term of the range check can be met inside the range of its gauge
TermReachable(t, ranges) ==
    /\ t.left \in DOMAIN ranges
    /\ LET lo == ranges[t.left].min
           hi == ranges[t.left].max
           c == LiteralValue[t.right]
       IN \/ t.op = ">=" /\ hi >= c
          \/ t.op = "<=" /\ lo <= c
          \/ t.op = "==" /\ lo <= c /\ c <= hi
          \/ t.op = ">" /\ hi > c
          \/ t.op = "<" /\ lo < c

NumericTerms(terms) == \A i \in 1..Len(terms) : terms[i].right \in DOMAIN LiteralValue

\* C15: a condition is split on " AND " first and otherwise on " OR ": an
\* AND chain is the conjunction of its terms, an OR chain the disjunction,
\* and a mixed condition is the AND of its AND-separated parts, each the OR
\* of its terms; check_condition_reachability splits the same way.
C15_AndSplitsBeforeOr ==
    (ev.pc = "ready" /\ Len(ev.terms) >= 2) =>
        /\ ev.result # None =>
              /\ ev.result.value = AndOfOrs(ev.terms, ev.conns, LAMBDA t : TermHolds(t, ev.scores))
              /\ (\A j \in 1..Len(ev.conns) : ev.conns[j] = "AND") =>
                    ev.result.value = (\A i \in 1..Len(ev.terms) : TermHolds(ev.terms[i], ev.scores))
              /\ (\A j \in 1..Len(ev.conns) : ev.conns[j] = "OR") =>
                    ev.result.value = (\E i \in 1..Len(ev.terms) : TermHolds(ev.terms[i], ev.scores))
        /\ (ev.reachable # None /\ NumericTerms(ev.terms)) =>
              ev.reachable.value =
                 PyBool(AndOfOrs(ev.terms, ev.conns, LAMBDA t : TermReachable(t, ev.ranges)))

C15_Witness ==
    /\ ev.pc = "ready"
    /\ ev.condition = "x >= 2 OR y < 2 AND zz > 0"
    /\ ev.scores = [x |-> 2, y |-> 2]
    /\ ev.result = [value |-> FALSE]
    /\ ev.reachable # None

----------------------------------------------------------------------------
(* Properties of calculate_final_ending as a function of its arguments *)

\* the deltas of the i-th episode result
DeltasOf(i) ==
    LET r == cfe.episode_results[i]
    IN IF "ending" \in DOMAIN r /\ "gauge_changes" \in DOMAIN r.ending
       THEN r.ending.gauge_changes ELSE EmptyDict

\* C11: calculate_final_ending leaves the initial_gauges map and the episode
\* results of its caller as they were passed, and a gauge of the initial
\* state that no applied delta names has its initial value in the returned
\* state.
C11_FinalEndingLeavesArgumentsAlone ==
    /\ cfe.arg_gauges = cfe.initial_gauges
    /\ cfe.arg_results = cfe.episode_results
    /\ (cfe.pc = "done" /\ cfe.initial_gauges # None) =>
          \A k \in DOMAIN cfe.initial_gauges :
             (\A i \in 1..Len(cfe.episode_results) : k \notin DOMAIN DeltasOf(i)) =>
                 /\ k \in DOMAIN cfe.gauges
                 /\ cfe.gauges[k] = cfe.initial_gauges[k]

C11_Witness ==
    /\ cfe.pc = "done"
    /\ cfe.initial_gauges = [hope |-> 50, trust |-> 100]
    /\ cfe.episode_results = <<Plus60>>
    /\ cfe.gauges = [hope |-> 100, trust |-> 100]
    /\ cfe.arg_gauges = [hope |-> 50, trust |-> 100]

----------------------------------------------------------------------------
(* Properties of the simulators *)

\* the baseline of the gauge definitions: each gauge at its initial value,
\* 50 when it has none
BaselineOf(gauge_defs) ==
    [k \in {gauge_defs[i].id : i \in DOMAIN gauge_defs} |->
        LET g == CHOOSE d \in {gauge_defs[i] : i \in DOMAIN gauge_defs} : d.id = k
        IN IF "initial_value" \in DOMAIN g THEN g.initial_value ELSE 50]

\* gauges no reached episode ending changes
UnchangedGauges ==
    {k \in DOMAIN BaselineOf(game.context.gauges) :
        \A i \in 1..Len(game.sims) : k \notin DOMAIN game.sims[i].gauge_changes}

\* C12: simulate_full_game resolves the final ending against the reached
\* episode endings folded over the baseline of the gauge definitions; a gauge
\* no reached ending changes is compared at its initial value, not at 0.
C12_FinalEndingReadsBaseline ==
    game.pc = "done" =>
        LET folded == FoldResults(BaselineOf(game.context.gauges), game.episode_results)
        IN /\ \A k \in UnchangedGauges : folded[k] = BaselineOf(game.context.gauges)[k]
           /\ game.final_ending = FinalEndingOf(game.context.final_endings, folded)

\* the indices of the endings whose condition is not "default" and holds
MetIn(endings, scores) ==
    {i \in 1..Len(endings) : /\ "condition" \in DOMAIN endings[i]
                             /\ endings[i].condition # "default"
                             /\ evaluate_condition(endings[i].condition, scores)}

DefaultIn(endings) ==
    {i \in 1..Len(endings) : "condition" \in DOMAIN endings[i] /\ endings[i].condition = "default"}

Lowest(S) == CHOOSE i \in S : \A j \in S : i <= j

\* the selection rule: first met ending, else the "default" one, else the
\* first of the list (None for an empty list)
SelectedByRule(endings, scores) ==
    IF MetIn(endings, scores) # {} THEN endings[Lowest(MetIn(endings, scores))]
    ELSE IF DefaultIn(endings) # {} THEN endings[Lowest(DefaultIn(endings))]
    ELSE IF endings # <<>> THEN endings[1]
    ELSE None

TwiceCooperative(sim) ==
    /\ ~sim.error
    /\ Len(sim.choices_made) = 2
    /\ \A c \in 1..2 : sim.choices_made[c].tags = <<"cooperative">> \/ sim.choices_made[c].tags = <<"cooperative", "trusting">>

\* C13: determine_episode_ending and calculate_final_ending select by one
\* rule: the first ending in list order whose condition is not "default" and
\* holds, else the ending with condition "default", else the first ending.
\* With endings [cooperative >= 2 (hope +10), default] and two cooperative
\* choices taken the first ending is reached and hope goes from 50 to 60.
C13_EndingSelectionRule ==
    /\ \A i \in 1..Len(game.sims) :
          ~game.sims[i].error =>
              game.sims[i].reached_ending =
                  SelectedByRule(game.episodes[i].endings, game.sims[i].tag_scores)
    /\ game.pc = "done" =>
          game.final_ending = SelectedByRule(game.context.final_endings, game.final_gauges)
    /\ \A i \in 1..Len(game.sims) :
          (game.episodes[i].endings = UnitedOrQuiet /\ TwiceCooperative(game.sims[i])) =>
              /\ game.sims[i].reached_ending = UnitedOrQuiet[1]
              /\ (game.pc = "done" /\ Len(game.episodes) = 1) => game.final_gauges = [hope |-> 60]

C13_Witness ==
    /\ game.pc = "done"
    /\ Len(game.episodes) = 2
    /\ game.episodes[1].endings = UnitedOrQuiet
    /\ TwiceCooperative(game.sims[1])
    /\ game.sims[2].reached_ending.title = "broken"
    /\ game.final_ending # None
    /\ game.final_ending.title = "lonely"

C20_OneChoicePerEdge ==
    \A i \in 1..Len(game.sims) :
        LET sim == game.sims[i]
            ns == game.episodes[i].nodes
        IN ~sim.error =>
              /\ sim.path[1].parent_id = None
              /\ Len(sim.choices_made) = Len(sim.path) - 1
              /\ \A e \in 1..(Len(sim.path) - 1) :
                    \E c \in 1..Len(sim.path[e].choices) :
                       /\ sim.choices_made[e] = sim.path[e].choices[c]
                       /\ sim.path[e + 1] = ChildNodes(ns, sim.path[e])[c]

----------------------------------------------------------------------------
(* Properties of the validators *)

\* the nodes of the i-th episode that have no choices and are not endings
DeadNodes(i) ==
    {k \in 1..Len(val.episodes[i].nodes) :
        /\ val.episodes[i].nodes[k].node_type # "ending"
        /\ Len(val.episodes[i].nodes[k].choices) = 0}

RECURSIVE SumOver(_, _)
SumOver(f, S) ==
    IF S = {} THEN 0
    ELSE LET x == CHOOSE y \in S : TRUE IN f[x] + SumOver(f, S \ {x})

\* C17: find_dead_ends reports a node exactly when its node_type is not
\* "ending" and its choice list is empty: each such node of each episode once
\* (error nodes included), and no node with choices or of type "ending".
C17_DeadEndsExactly ==
    val.dead_ends # None =>
        LET reported == val.dead_ends.list
        IN /\ \A i \in 1..Len(val.episodes) : \A k \in DeadNodes(i) :
                 \E r \in 1..Len(reported) :
                    /\ reported[r].episode_id = val.episodes[i].id
                    /\ reported[r].node_id = val.episodes[i].nodes[k].id
           /\ \A r \in 1..Len(reported) :
                 \E i \in 1..Len(val.episodes) : \E k \in DeadNodes(i) :
                    /\ reported[r].episode_id = val.episodes[i].id
                    /\ reported[r].node_id = val.episodes[i].nodes[k].id
                    /\ reported[r].depth = val.episodes[i].nodes[k].depth
           /\ Len(reported) = SumOver([i \in 1..Len(val.episodes) |-> Cardinality(DeadNodes(i))],
                                      1..Len(val.episodes))

C17_Witness ==
    /\ val.dead_ends # None
    /\ Len(val.episodes) = 2
    /\ val.episodes[1].nodes = RegeneratedNodes
    /\ val.episodes[2].nodes = BuiltNodes
    /\ Len(val.dead_ends.list) = 2
    /\ val.dead_ends.list[1].depth = 1
    /\ val.dead_ends.list[2].node_id = [uuid |-> <<0, 1>>]

\* the full games: one ending picked in every episode that has endings
GamePicks ==
    {p \in [1..Len(val.episodes) -> 0..4] :
        \A i \in 1..Len(val.episodes) :
            IF val.episodes[i].endings = <<>> THEN p[i] = 0
            ELSE p[i] \in 1..Len(val.episodes[i].endings)}

\* the gauges at the end of a full game, every gauge starting at the initial
\* value, the deltas of the picked endings folded with the clamp
RECURSIVE GaugesAfter(_, _, _)
GaugesAfter(gauges, p, i) ==
    IF i > Len(val.episodes) THEN gauges
    ELSE IF p[i] = 0 THEN GaugesAfter(gauges, p, i + 1)
    ELSE LET ch == val.episodes[i].endings[p[i]].gauge_changes
         IN GaugesAfter([k \in DOMAIN gauges |->
                            IF k \in DOMAIN ch THEN Clamp(gauges[k] + ch[k]) ELSE gauges[k]],
                        p, i + 1)

EndOfGame(p) == GaugesAfter([hope |-> val.initial_value, trust |-> val.initial_value], p, 1)

InList(title, titles) == \E i \in 1..Len(titles) : titles[i] = title

\* C18: whenever some full game ends with gauges for which the condition of
\* a final ending evaluates true, validate_gauge_balance lists that ending as
\* reachable and not as unreachable.
C18_ReachableIsOverApproximated ==
    (val.report # None /\ ~val.report.raised) =>
        \A e \in 1..Len(val.final_endings) :
            LET ending == val.final_endings[e]
            IN ("condition" \in DOMAIN ending /\
                \E p \in GamePicks : evaluate_condition(ending.condition, EndOfGame(p)))
               => /\ InList(ending.title, val.report.reachable_endings)
                  /\ ~InList(ending.title, val.report.unreachable_endings)

\* C19: validate_gauge_balance returns its report for every condition of the
\* expression grammar, a term comparing two gauge identifiers and mixed
\* AND/OR included: it never raises, and every ending it finds unsatisfiable
\* is listed under unreachable_endings with a recommendation.
C19_ValidatorAlwaysReports ==
    val.report # None =>
        /\ ~val.report.raised
        /\ Len(val.report.reachable_endings) + Len(val.report.unreachable_endings)
              = Len(val.final_endings)
        /\ Len(val.report.recommendations) = Len(val.report.unreachable_endings)
        /\ val.report.is_balanced = (val.report.unreachable_endings = <<>>)

----------------------------------------------------------------------------
(* Properties of the size and shape of the built tree *)

NodesAtDepth(d) == Len(SelectDepth(nodes, d))

RECURSIVE FullTreeSize(_)
\* 1 + 4 + ... + 4^d
FullTreeSize(d) == IF d = 0 THEN 1 ELSE 4^d + FullTreeSize(d - 1)

DepthClass(d, D) ==
    IF d = 0 THEN "first_choice"
    ELSE IF d = D THEN "ending"
    ELSE IF d = D - 1 THEN "climax"
    ELSE "development"

\* the node of the regenerated subtree was written after a failed call
SubNodeFailed(n) == n.text # "story"

\* C22: every successfully generated node is classified from its depth and
\* the maximum depth alone (depth 0 first_choice, depth D ending, depth D-1
\* climax, otherwise development), in the tree build and in the regenerated
\* subtree, and the node of a failed generation is classified error.
C22_ClassifiedByDepthOrError ==
    /\ \A k \in 1..Len(nodes) :
          /\ nodes[k].node_type \in {"error", DepthClass(nodes[k].depth, max_depth)}
          /\ nodes[k].node_type = "error" => nodes[k].choices = <<>>
    /\ \A k \in 1..Len(sub.nodes) :
          sub.nodes[k].node_type = IF SubNodeFailed(sub.nodes[k]) THEN "error"
                                   ELSE DepthClass(sub.nodes[k].depth, sub.max_depth)

----------------------------------------------------------------------------
(* Properties of the library calls on a stored story *)

Readers == {"find_dead_ends", "check_tag_coverage", "validate_gauge_balance",
            "simulate_playthrough", "simulate_full_game", "get_all_possible_endings"}

RECURSIVE InSubtree(_, _, _)
InSubtree(ns, id, target) ==
    \/ id = target
    \/ LET n == NodeById(ns, id)
       IN n # None /\ n.parent_id # None /\ InSubtree(ns, n.parent_id, target)

DeleteRelation(before, after, episode_id, node_id, returned) ==
    LET matches == {i \in 1..Len(before) : before[i].id = episode_id}
    IN IF matches = {} THEN after = before /\ ~returned
       ELSE LET i == CHOOSE m \in matches : \A k \in matches : m <= k
                ns == before[i].nodes
                present == \E k \in 1..Len(ns) : ns[k].id = node_id
            IN /\ Len(after) = Len(before)
               /\ \A j \in 1..Len(before) : j # i => after[j] = before[j]
               /\ after[i].id = before[i].id
               /\ after[i].endings = before[i].endings
               /\ after[i].nodes = SelectSeq(ns, LAMBDA n : ~InSubtree(ns, n.id, node_id))
               /\ \A k \in 1..Len(after[i].nodes) :
                     LET parent_id == after[i].nodes[k].parent_id
                     IN parent_id # None => NodeById(after[i].nodes, parent_id) # None
               /\ returned = present
               /\ ~present => after = before

\* C24: delete_node removes the named node and every descendant of it from
\* the named episode and nothing else: no remaining node has a parent_id that
\* refers to a removed node, the other nodes and all other episodes are
\* unchanged, and when the node is not in the episode the call returns false
\* and removes nothing.
C24_DeleteRemovesExactlySubtree ==
    [][store'.op.name = "delete_node" =>
          DeleteRelation(store.episodes, store'.episodes, store'.op.episode_id,
                         store'.op.node_id, store'.result)]_vars

C24_Witness ==
    /\ store.op.name = "delete_node"
    /\ store.op.node_id = [uuid |-> <<0, 0>>]
    /\ store.result = TRUE
    /\ store.edits = 1
    /\ \E i \in 1..Len(store.episodes) :
          /\ store.episodes[i].id = "ep1"
          /\ store.episodes[i].nodes = <<BuiltNodes[1], BuiltNodes[3]>>

AllChoiceTags(episodes) == UNION {TagsOfNodes(episodes[i].nodes) : i \in 1..Len(episodes)}

ReferencedTags(episodes) ==
    {tag \in AllChoiceTags(episodes) :
        \E i \in 1..Len(episodes) : \E e \in 1..Len(episodes[i].endings) :
            StrIn(tag, DictGet(episodes[i].endings[e], "condition", ""))}

\* C27: check_tag_coverage reports as unused exactly the tags that appear on
\* some choice and are referenced by no ending condition, whatever the order
\* of the episodes: used_in_conditions is a subset of all_tags and
\* unused_tags is all_tags minus used_in_conditions.
C27_UnusedTagsExactly ==
    store.op.name = "check_tag_coverage" =>
        /\ store.result.all_tags = AllChoiceTags(store.episodes)
        /\ store.result.used_in_conditions \subseteq store.result.all_tags
        /\ store.result.unused_tags = store.result.all_tags \ store.result.used_in_conditions
        /\ store.result.unused_tags = AllChoiceTags(store.episodes) \ ReferencedTags(store.episodes)

----------------------------------------------------------------------------
(* Properties of what the builders accept from the provider *)

RECURSIVE ChoiceCountsWithin(_)
\* every node of the nested tree that has choices has min_items..max_items
ChoiceCountsWithin(node) ==
    /\ node.choices = <<>> \/ Len(node.choices) \in min_items..max_items
    /\ \A i \in 1..Len(node.children) : ChoiceCountsWithin(node.children[i])

\* C25: in every tree the program builds (generate_full_tree,
\* regenerate_subtree, generate_single_episode) a provider response for a
\* node that is not an ending is accepted only with 2 to 4 choices, each
\* with a non-empty immediate reaction, and is a failed call otherwise: every
\* accepted node that is not an ending has between 2 and 4 choices.
C25_AcceptedNodesHaveTwoToFourChoices ==
    /\ \A k \in 1..Len(nodes) :
          nodes[k].node_type # "ending" =>
             \/ nodes[k].node_type = "error" /\ nodes[k].choices = <<>>
             \/ /\ Len(nodes[k].choices) \in min_items..max_items
                /\ \A i \in 1..Len(nodes[k].choices) :
                      nodes[k].choices[i].immediate_reaction >= min_length
    /\ \A k \in 1..Len(sub.nodes) :
          sub.nodes[k].node_type # "ending" =>
             \/ SubNodeFailed(sub.nodes[k]) /\ sub.nodes[k].choices = <<>>
             \/ Len(sub.nodes[k].choices) \in min_items..max_items
    /\ flow.episode # None => ChoiceCountsWithin(flow.episode.start_node)

IsDefaultEnding(ending) == "condition" \in DOMAIN ending /\ ending.condition = "default"

ExactlyOneDefault(endings) ==
    Cardinality({i \in 1..Len(endings) : IsDefaultEnding(endings[i])}) = 1

\* C26: every ending set that main_flow stores for the ending resolver, the
\* final endings and the endings of each episode, the fallback set for a
\* provider that yields no endings included, contains exactly one ending
\* whose condition is "default".
C26_EveryEndingSetHasOneDefault ==
    /\ flow.error # "TypeError"
    /\ flow.pc \in {"episodes", "returned"} => ExactlyOneDefault(flow.final_endings)
    /\ \A i \in 1..Len(flow.episodes) : ExactlyOneDefault(flow.episodes[i].endings)

RECURSIVE SomeReactionMissing(_)
SomeReactionMissing(node) ==
    \/ \E i \in 1..Len(node.choices) : "immediate_reaction" \notin DOMAIN node.choices[i]
    \/ \E i \in 1..Len(node.children) : SomeReactionMissing(node.children[i])

\* C28: for a start_node with a choice that has no immediate_reaction,
\* _validate_and_clean_node_structure adds a placeholder and
\* generate_single_episode returns the episode instead of raising.
C28_MissingReactionGetsPlaceholder ==
    (flow.data # None /\ SomeReactionMissing(flow.data.start_node)) =>
        /\ flow.pc = "generated"
        /\ ~SomeReactionMissing(flow.episode.start_node)

----------------------------------------------------------------------------
(* Properties of the order of the node list and of the full game *)

\* C29: whatever the order in which the tasks of a round finish, the
\* children of a node stand in the node list in the order of the parent's
\* choices: the k-th node with that parent_id is the node made for choice k.
C29_ChildrenInChoiceOrder ==
    \A p \in 1..Len(nodes) :
        LET children == ChildNodes(nodes, nodes[p])
        IN \A k \in 1..Len(children) :
              children[k].id.uuid = Append(nodes[p].id.uuid, k - 1)

C29_Witness ==
    /\ phase = "done"
    /\ max_depth = 1
    /\ \E p \in 1..Len(nodes) :
          /\ nodes[p].depth = 1
          /\ Len(nodes[p].choices) = 2
          /\ Len(ChildNodes(nodes, nodes[p])) = 2
          /\ Len(ChildNodes(nodes, nodes[1])) = 3

\* C30: simulate_full_game returns its result and does not raise, for every
\* stored story and every episode_choices: an episode without a root node,
\* an episode whose endings list is empty and fewer choice sequences than
\* episodes included.
C30_FullGameAlwaysReturns ==
    /\ game.pc # "raised"
    /\ store.op.name = "simulate_full_game" => ~store.result.raised

====
